---- MODULE Spec2Model ----
(***************************************************************************)
(* Model of the Visper AI text-enhancement service (python/src).           *)
(*                                                                         *)
(* The shared key-value store (Redis) is modelled by the variables zset,   *)
(* zttl (rate-limit windows), cache (enhancement cache) and tasks (task    *)
(* records).  Every awaited store call is one step of a process and may    *)
(* raise.  Wall-clock time is the variable now; one tick stands for a      *)
(* fixed number of seconds, so several clock reads may return the same     *)
(* value.                                                                  *)
(***************************************************************************)
EXTENDS Integers, Sequences, FiniteSets, TLC

\* ------------------------------------------------------------------ bounds
MaxTime == 3          \* the clock runs from 0 to MaxTime ticks
MaxChecks == 3        \* admission checks started in one behaviour

\* ------------------------------------------------ configuration (scaled)
DEFAULT_LIMIT == 4    \* settings.DEFAULT_RATE_LIMIT_LIMIT (10 in config.py)
DEFAULT_PERIOD == 2   \* settings.DEFAULT_RATE_LIMIT_PERIOD, in ticks
ExpireSlack == 1      \* the "+ 10" seconds of redis.expire(key, period + 10)

Procs == {"p1", "p2", "p3"} \* concurrently served requests
PairProcs == {"p1", "p2"}  \* two of them
SeqProcs == {"p1"}   \* one request at a time
NoTtl == -1           \* a key of the store that carries no expiry

\* Values as json.loads and dict.get hand them to the code: None, a dict with
\* its keys, a list.
NoUser == [type |-> "none"]
UserRegistered == [type |-> "dict", id |-> "u1", is_guest |-> FALSE]
UserGuest == [type |-> "dict", id |-> "g1", is_guest |-> TRUE]
UserNoFlag == [type |-> "dict", id |-> "n1"]
DictNoId == [type |-> "dict", username |-> "x"]
EmptyDict == [type |-> "dict"]
ListValue == [type |-> "list", len |-> 1]
ResolvedUsers == {UserRegistered, UserGuest, UserNoFlag}
RlUsers == {UserGuest, NoUser}  \* the callers whose limit MaxChecks can reach

\* bool(value)
Truthy(v) ==
  CASE v.type = "none" -> FALSE
    [] v.type = "dict" -> DOMAIN v # {"type"}
    [] v.type = "list" -> v.len > 0

\* value["id"] evaluates (no KeyError, no TypeError)
HasId(v) == v.type = "dict" /\ "id" \in DOMAIN v

ClientHosts == {"ip1"}
Endpoints == {"/ai/enhance", "/ai/enhance/async", "/ai/enhance/batch"}
Paths == {"/ai/enhance"}
Keys == ({"u1", "g1", "n1"} \cup ClientHosts) \X Endpoints


\* ------------------------------------------------------------------- text
\* A text is a sequence of one-character strings.

LowerLetters == <<"a", "b", "c", "d", "e", "f", "g", "h", "i", "j", "k", "l", "m", "n", "o", "p", "q", "r", "s", "t", "u", "v", "w", "x", "y", "z">>
UpperLetters == <<"A", "B", "C", "D", "E", "F", "G", "H", "I", "J", "K", "L", "M", "N", "O", "P", "Q", "R", "S", "T", "U", "V", "W", "X", "Y", "Z">>
Digits == {"0", "1", "2", "3", "4", "5", "6", "7", "8", "9"}
Whitespace == {" ", "\t", "\n"}

Range(f) == {f[i] : i \in DOMAIN f}

\* F applied to the value of v, which is computed once
With(v, F(_)) == CHOOSE r \in {F(x) : x \in {v}} : TRUE

\* str.islower / str.isupper of one character
IsLower(c) == c \in Range(LowerLetters)
IsUpper(c) == c \in Range(UpperLetters)

\* str.upper / str.lower of one character
ToUpper(c) ==
  IF IsLower(c) THEN UpperLetters[CHOOSE i \in 1..26 : LowerLetters[i] = c] ELSE c
ToLower(c) ==
  IF IsUpper(c) THEN LowerLetters[CHOOSE i \in 1..26 : UpperLetters[i] = c] ELSE c

LowerText(text) == [i \in 1..Len(text) |-> ToLower(text[i])]

\* the regular expression class \w
IsWordChar(c) == IsLower(c) \/ IsUpper(c) \/ c \in Digits \/ c = "_"

RECURSIVE LStrip(_, _)
LStrip(text, chars) ==
  IF text # <<>> /\ Head(text) \in chars THEN LStrip(Tail(text), chars) ELSE text

RECURSIVE RStrip(_, _)
RStrip(text, chars) ==
  IF text # <<>> /\ text[Len(text)] \in chars
  THEN RStrip(SubSeq(text, 1, Len(text) - 1), chars)
  ELSE text

\* str.strip(chars)
StripChars(text, chars) ==
  With(LStrip(text, chars), LAMBDA t : RStrip(t, chars))

\* str.strip()
Strip(text) == StripChars(text, Whitespace)

\* the pattern \b<word>\b with re.IGNORECASE matches at position i of text
WordMatchAt(text, i, word) ==
  /\ i + Len(word) - 1 <= Len(text)
  /\ \A j \in 1..Len(word) : ToLower(text[i + j - 1]) = ToLower(word[j])
  /\ (i = 1 \/ ~IsWordChar(text[i - 1]))
  /\ (i + Len(word) > Len(text) \/ ~IsWordChar(text[i + Len(word)]))

RECURSIVE SubWordFrom(_, _, _, _)
SubWordFrom(text, i, word, repl) ==
  IF i > Len(text) THEN <<>>
  ELSE IF WordMatchAt(text, i, word)
       THEN repl \o SubWordFrom(text, i + Len(word), word, repl)
       ELSE <<text[i]>> \o SubWordFrom(text, i + 1, word, repl)

\* re.sub(r'\b<word>\b', repl, text, flags=re.IGNORECASE)
SubWord(text, word, repl) == SubWordFrom(text, 1, word, repl)

\* re.search(r'\b<word>\b', text)
SearchWord(text, word) == \E i \in 1..Len(text) : WordMatchAt(text, i, word)

RECURSIVE SubWords(_, _)
\* the replacements applied one after another, in the order of the dictionary
SubWords(text, pairs) ==
  IF pairs = <<>> THEN text
  ELSE With(SubWord(text, Head(pairs)[1], Head(pairs)[2]),
            LAMBDA t : SubWords(t, Tail(pairs)))

RECURSIVE RemoveWords(_, _)
\* re.sub(pattern, '', text) for each pattern of a list
RemoveWords(text, words) ==
  IF words = <<>> THEN text
  ELSE With(SubWord(text, Head(words), <<>>),
            LAMBDA t : RemoveWords(t, Tail(words)))

RECURSIVE CollapseRuns(_, _, _)
\* re.sub(r'<class>+', c, text): each run of characters of chars becomes c
CollapseRuns(text, chars, c) ==
  IF text = <<>> THEN <<>>
  ELSE IF Head(text) \in chars
       THEN <<c>> \o CollapseRuns(LStrip(text, chars), chars, c)
       ELSE <<Head(text)>> \o CollapseRuns(Tail(text), chars, c)

\* re.sub(r'\s+', ' ', text).strip()
CollapseSpaces(text) ==
  With(CollapseRuns(text, Whitespace, " "), LAMBDA t : Strip(t))

\* '<a><b>' in text
HasPair(text, a, b) == \E i \in 1..(Len(text) - 1) : text[i] = a /\ text[i + 1] = b

TerminalPunctuation == {".", "!", "?"}

\* _rule_based_preprocess: replacements
Replacements == <<
    <<<<"u">>,
      <<"y", "o", "u">>>>,
    <<<<"u", "r">>,
      <<"y", "o", "u", "r">>>>,
    <<<<"u", "r", "s">>,
      <<"y", "o", "u", "r", "s">>>>,
    <<<<"p", "l", "z">>,
      <<"p", "l", "e", "a", "s", "e">>>>,
    <<<<"p", "l", "s">>,
      <<"p", "l", "e", "a", "s", "e">>>>,
    <<<<"t", "h", "x">>,
      <<"t", "h", "a", "n", "k", " ", "y", "o", "u">>>>,
    <<<<"t", "h", "a", "n", "x">>,
      <<"t", "h", "a", "n", "k", " ", "y", "o", "u">>>>,
    <<<<"t", "y">>,
      <<"t", "h", "a", "n", "k", " ", "y", "o", "u">>>>,
    <<<<"n", "p">>,
      <<"n", "o", " ", "p", "r", "o", "b", "l", "e", "m">>>>,
    <<<<"g", "o", "n", "n", "a">>,
      <<"g", "o", "i", "n", "g", " ", "t", "o">>>>,
    <<<<"w", "a", "n", "n", "a">>,
      <<"w", "a", "n", "t", " ", "t", "o">>>>,
    <<<<"g", "o", "t", "t", "a">>,
      <<"h", "a", "v", "e", " ", "t", "o">>>>,
    <<<<"k", "i", "n", "d", "a">>,
      <<"k", "i", "n", "d", " ", "o", "f">>>>,
    <<<<"s", "o", "r", "t", "a">>,
      <<"s", "o", "r", "t", " ", "o", "f">>>>,
    <<<<"y", "e", "a", "h">>,
      <<"y", "e", "s">>>>,
    <<<<"y", "e", "p">>,
      <<"y", "e", "s">>>>,
    <<<<"n", "a", "h">>,
      <<"n", "o">>>>,
    <<<<"n", "o", "p", "e">>,
      <<"n", "o">>>>,
    <<<<"o", "k">>,
      <<"o", "k", "a", "y">>>>,
    <<<<"c", "u", "z">>,
      <<"b", "e", "c", "a", "u", "s", "e">>>>,
    <<<<"c", "a", "u", "s", "e">>,
      <<"b", "e", "c", "a", "u", "s", "e">>>>,
    <<<<"t", "h", "o">>,
      <<"t", "h", "o", "u", "g", "h">>>>,
    <<<<"t", "h", "r", "u">>,
      <<"t", "h", "r", "o", "u", "g", "h">>>>,
    <<<<"b", "t", "w">>,
      <<"b", "y", " ", "t", "h", "e", " ", "w", "a", "y">>>>,
    <<<<"i", "d", "k">>,
      <<"I", " ", "d", "o", "n", "'", "t", " ", "k", "n", "o", "w">>>>,
    <<<<"i", "m", "o">>,
      <<"i", "n", " ", "m", "y", " ", "o", "p", "i", "n", "i", "o", "n">>>>,
    <<<<"f", "y", "i">>,
      <<"f", "o", "r", " ", "y", "o", "u", "r", " ", "i", "n", "f", "o", "r", "m", "a", "t", "i", "o", "n">>>>,
    <<<<"a", "s", "a", "p">>,
      <<"a", "s", " ", "s", "o", "o", "n", " ", "a", "s", " ", "p", "o", "s", "s", "i", "b", "l", "e">>>> >>

\* _rule_based_preprocess: casual_removals
CasualRemovals == <<<<"b", "r", "o">>,
    <<"d", "u", "d", "e">>,
    <<"m", "a", "n">>,
    <<"y", "o">>>>

\* _rule_based_preprocess: fillers
Fillers == <<<<"l", "i", "k", "e">>,
    <<"j", "u", "s", "t">>,
    <<"r", "e", "a", "l", "l", "y">>,
    <<"v", "e", "r", "y">>,
    <<"a", "c", "t", "u", "a", "l", "l", "y">>,
    <<"b", "a", "s", "i", "c", "a", "l", "l", "y">>,
    <<"l", "i", "t", "e", "r", "a", "l", "l", "y">>,
    <<"k", "i", "n", "d", " ", "o", "f">>,
    <<"s", "o", "r", "t", " ", "o", "f">>>>

\* _rule_based_fallback: hedges
Hedges == <<<<"m", "a", "y", "b", "e">>,
    <<"p", "e", "r", "h", "a", "p", "s">>,
    <<"p", "o", "s", "s", "i", "b", "l", "y">>,
    <<"I", " ", "t", "h", "i", "n", "k">>,
    <<"I", " ", "g", "u", "e", "s", "s">>>>

\* analyze_improvements: informal_words
InformalWords == <<<<"u">>,
    <<"u", "r">>,
    <<"p", "l", "z">>,
    <<"t", "h", "x">>,
    <<"b", "r", "o">>,
    <<"d", "u", "d", "e">>,
    <<"g", "o", "n", "n", "a">>,
    <<"w", "a", "n", "n", "a">>>>

\* TextEnhancementService._rule_based_preprocess
RuleBasedPreprocess(message, style) ==
  With(Strip(message), LAMBDA text :
    IF style \in {"professional", "formal"}
    THEN With(SubWords(text, Replacements), LAMBDA t1 :
         With(RemoveWords(t1, CasualRemovals), LAMBDA t2 :
         With(CollapseRuns(t2, {"!"}, "!"), LAMBDA t3 :
         With(CollapseRuns(t3, {"?"}, "?"), LAMBDA t4 :
         With(CollapseRuns(t4, {"."}, "."), LAMBDA t5 :
           CollapseSpaces(t5))))))
    ELSE IF style = "concise"
    THEN With(RemoveWords(text, Fillers), LAMBDA t : CollapseSpaces(t))
    ELSE text)

\* TextEnhancementService._rule_based_fallback
RuleBasedFallback(message, style, tone) ==
  With(RuleBasedPreprocess(message, style), LAMBDA text :
  With(IF text # <<>> /\ IsLower(text[1])
       THEN <<ToUpper(text[1])>> \o Tail(text)
       ELSE text, LAMBDA cap :
  With(IF cap # <<>> /\ cap[Len(cap)] \notin TerminalPunctuation
       THEN IF style = "friendly" \/ tone = "enthusiastic"
            THEN cap \o <<"!">>
            ELSE cap \o <<".">>
       ELSE cap, LAMBDA pun :
    IF tone = "confident"
    THEN With(RemoveWords(pun, Hedges), LAMBDA t : CollapseSpaces(t))
    ELSE pun)))

\* text starts with prefix, letters compared without case
HasPrefixCI(text, prefix) ==
  /\ Len(prefix) <= Len(text)
  /\ \A j \in 1..Len(prefix) : ToLower(text[j]) = ToLower(prefix[j])

\* re.sub(r'^<prefix>.*?:', '', text): the text after the first colon that
\* follows the prefix on the first line, or text when there is none
DropThroughColon(text, prefix) ==
  LET colons == {j \in (Len(prefix) + 1)..Len(text) : text[j] = ":"}
      first == CHOOSE j \in colons : \A k \in colons : j <= k
  IN IF colons # {} /\ \A k \in (Len(prefix) + 1)..(first - 1) : text[k] # "\n"
     THEN SubSeq(text, first + 1, Len(text))
     ELSE text

HereIs1 == <<"H", "e", "r", "e", "'", "s">>
HereIs2 == <<"H", "e", "r", "e", " ", "i", "s">>

\* TextEnhancementService.enhance: the clean-up of the model's reply
\* (response.content is already stripped by OllamaClient.chat)
CleanReply(content) ==
  With(Strip(content), LAMBDA e0 :
  With(IF HasPrefixCI(e0, HereIs1) THEN DropThroughColon(e0, HereIs1)
       ELSE IF HasPrefixCI(e0, HereIs2) THEN DropThroughColon(e0, HereIs2)
       ELSE e0, LAMBDA e1 :
  With(Strip(e1), LAMBDA e2 :
  With(StripChars(e2, {"\""}), LAMBDA e3 : StripChars(e3, {"'"})))))

MinReplyLen == 3      \* enhance: len(enhanced) < 3
MaxReplyFactor == 4   \* enhance: len(enhanced) > len(message) * 4
ModelName == "qwen2.5:3b"

\* a validation without the upper bound on the length
ValidateReply_NoUpperBound(enhanced, message) ==
  IF enhanced = <<>> \/ Len(enhanced) < MinReplyLen THEN "LLM output too short"
  ELSE "ok"

\* TextEnhancementService.enhance: the validation of the cleaned reply;
\* "ok" or the message of the ValueError raised
ValidateReply(enhanced, message) ==
  IF enhanced = <<>> \/ Len(enhanced) < MinReplyLen THEN "LLM output too short"
  ELSE IF Len(enhanced) > Len(message) * MaxReplyFactor THEN "LLM output too long"
  ELSE "ok"

\* enhance that accepts whatever the model replied, without validation
Enhance_Unvalidated(message, style, tone, reply, fallback) ==
  IF reply.ok
  THEN [raised |-> FALSE, enhanced |-> CleanReply(reply.content),
        metadata |-> [method |-> "llm", model |-> ModelName, style |-> style,
                      tone |-> tone]]
  ELSE IF ~fallback
  THEN [raised |-> TRUE, error |-> "Unexpected error during chat"]
  ELSE [raised |-> FALSE, enhanced |-> RuleBasedFallback(message, style, tone),
        metadata |-> [method |-> "fallback", model |-> ModelName,
                      style |-> style, tone |-> tone,
                      error |-> "Unexpected error during chat"]]

\* TextEnhancementService.enhance, given what the awaited ollama.chat did:
\* reply.ok with reply.content, or a RuntimeError raised by chat
Enhance(message, style, tone, reply, fallback) ==
  With(IF reply.ok THEN CleanReply(reply.content) ELSE <<>>, LAMBDA enhanced :
  With(IF reply.ok THEN ValidateReply(enhanced, message)
       ELSE "Unexpected error during chat", LAMBDA verdict :
     IF verdict = "ok"
     THEN [raised |-> FALSE, enhanced |-> enhanced,
           metadata |-> [method |-> "llm", model |-> ModelName, style |-> style,
                         tone |-> tone, llm_duration_ns |-> "ns",
                         tokens_generated |-> "n", processing_time_ms |-> "ms"]]
     ELSE IF ~fallback
     THEN [raised |-> TRUE, error |-> verdict]
     ELSE [raised |-> FALSE, enhanced |-> RuleBasedFallback(message, style, tone),
           metadata |-> [method |-> "fallback", model |-> ModelName,
                         style |-> style, tone |-> tone, error |-> verdict,
                         processing_time_ms |-> "ms"]]))

\* TextEnhancementService.analyze_improvements; raised stands for the
\* IndexError of enhanced[0] or original[0] on an empty string
AnalyzeImprovements(original, enhanced, style, tone) ==
  IF enhanced = <<>> \/ original = <<>> THEN [raised |-> TRUE, error |-> "IndexError"]
  ELSE
  LET length == IF 10 * Len(enhanced) > 12 * Len(original)
                THEN <<"Expanded with more detail">>
                ELSE IF 10 * Len(enhanced) < 8 * Len(original)
                THEN <<"Made more concise">>
                ELSE <<>>
      capital == IF IsUpper(enhanced[1]) /\ ~IsUpper(original[1])
                 THEN <<"Capitalized first letter">> ELSE <<>>
      punct == IF enhanced[Len(enhanced)] \in TerminalPunctuation
                  /\ original[Len(original)] \notin TerminalPunctuation
               THEN <<"Added proper punctuation">> ELSE <<>>
      had == \E i \in 1..Len(InformalWords) :
               SearchWord(LowerText(original), InformalWords[i])
      has == \E i \in 1..Len(InformalWords) :
               SearchWord(LowerText(enhanced), InformalWords[i])
      informal == IF had /\ ~has THEN <<"Replaced informal language">> ELSE <<>>
      spacing == IF HasPair(original, " ", " ") /\ ~HasPair(enhanced, " ", " ")
                 THEN <<"Fixed spacing">> ELSE <<>>
      found == length \o capital \o punct \o informal \o spacing
  IN [raised |-> FALSE,
      improvements |-> IF found = <<>> THEN <<"Applied style", "Used tone">>
                       ELSE found]

\* ------------------------------------------------------ enhancement cache

ENHANCEMENT_CACHE_TTL == 2   \* settings.ENHANCEMENT_CACHE_TTL, in ticks

Styles == {"professional", "casual", "concise", "friendly", "formal"}
Tones == {"confident", "polite", "neutral", "enthusiastic"}

\* EnhancementStyle.value / EnhancementTone.value as text
EnumText(name) ==
  CASE name = "professional" -> <<"p", "r", "o", "f", "e", "s", "s", "i", "o", "n", "a", "l">>
    [] name = "casual" -> <<"c", "a", "s", "u", "a", "l">>
    [] name = "concise" -> <<"c", "o", "n", "c", "i", "s", "e">>
    [] name = "friendly" -> <<"f", "r", "i", "e", "n", "d", "l", "y">>
    [] name = "formal" -> <<"f", "o", "r", "m", "a", "l">>
    [] name = "confident" -> <<"c", "o", "n", "f", "i", "d", "e", "n", "t">>
    [] name = "polite" -> <<"p", "o", "l", "i", "t", "e">>
    [] name = "neutral" -> <<"n", "e", "u", "t", "r", "a", "l">>
    [] name = "enthusiastic" -> <<"e", "n", "t", "h", "u", "s", "i", "a", "s", "t", "i", "c">>

\* hashlib.sha256(content).hexdigest(), taken to be free of collisions
Sha256(content) == <<"sha256", content>>

\* a key whose pre-hash content leaves the tone out
BuildCacheKey_NoTone(user_id, message, style, tone) ==
  <<"enhance:v2", user_id, Sha256(message \o <<":">> \o EnumText(style))>>

\* a key that leaves the caller out
BuildCacheKey_NoUser(user_id, message, style, tone) ==
  <<"enhance:v2", "",
    Sha256(message \o <<":">> \o EnumText(style) \o <<":">> \o EnumText(tone))>>

\* _build_cache_key
BuildCacheKey(user_id, message, style, tone) ==
  <<"enhance:v2", user_id,
    Sha256(message \o <<":">> \o EnumText(style) \o <<":">> \o EnumText(tone))>>

\* f @@ g with the fields of new replacing those of the record r
Upd(r, new) == new @@ r

VARIABLES
  now,    \* wall clock, in ticks
  zset,   \* rate-limit windows: key -> set of scores (member str(now), score now)
  zttl,   \* rate-limit windows: key -> expiry deadline, or NoTtl
  req,    \* per process: the request being served
  hist,   \* history: key -> the completed admission checks, in completion order
          \* (t: the check's clock read, quick: answered within that tick)
  nchecks, \* history: admission checks started so far
  enable_fallback, \* settings.ENABLE_RULE_BASED_FALLBACK
  cache,  \* enhancement cache: the set of live entries [key, value, exp]
  written, \* history: cache key -> the latest successful cache write of an
          \* answered enhance request (its text and its time)
  tasks,  \* task store: the set of live task records [id, rec, exp]
  bg,     \* task id -> the background task scheduled for it (pc "none": none)
  polls,  \* history: task id -> what the status polls of the id observed
  enhancement_service, \* the module global _enhancement_service: NoService
          \* or the instance it holds
  constructed \* history: TextEnhancementService instances built so far

vars == <<now, zset, zttl, req, hist, nchecks, enable_fallback, cache, written,
          tasks, bg, polls, enhancement_service, constructed>>
svcVars == <<enhancement_service, constructed>>
rlVars == <<zset, zttl, hist, nchecks>>
enhVars == <<enable_fallback, cache, written>>
taskVars == <<tasks, bg, polls>>

NoService == 0   \* _enhancement_service = None; the instances are 1, 2, ...

\* a getter without the test of the global: it builds on every call
GetEnhancementService_NoGuard(current, fresh, raises) ==
  IF raises THEN [global |-> current, returned |-> [ok |-> FALSE], built |-> 0]
  ELSE [global |-> fresh, returned |-> [ok |-> TRUE, instance |-> fresh],
        built |-> 1]

\* get_enhancement_service, a function without an await: what the global
\* holds afterwards, what the caller gets, and how many instances were built.
\* raises: a constructor (OllamaClient, TextEnhancementService) raises
GetEnhancementService(current, fresh, raises) ==
  IF current # NoService
  THEN [global |-> current, returned |-> [ok |-> TRUE, instance |-> current],
        built |-> 0]
  ELSE IF raises
  THEN [global |-> NoService, returned |-> [ok |-> FALSE], built |-> 0]
  ELSE [global |-> fresh, returned |-> [ok |-> TRUE, instance |-> fresh],
        built |-> 1]

\* the lifespan has run warmup_ollama before the first request is served: the
\* service exists
Warmed == enhancement_service = 1 /\ constructed = 1

\* a lookup under the key of the previous cache version
CacheLookup_StaleVersion(key) ==
  {e \in cache : e.key = <<"enhance:v1", key[2], key[3]>>}

TASK_TTL == 2        \* _store_task_status(..., ttl=3600), in ticks

\* the uuid4 task ids drawn in one behaviour
TaskIds == {"id1"}
NoTask == [pc |-> "none"]
NoPoll == [status |-> "none", found |-> TRUE]

\* redis.get(cache_key): the live entries stored under the key (none or one)
CacheLookup(key) == {e \in cache : e.key = key}

\* redis.set(cache_key, json.dumps(cache_data), ex=ttl)
CacheStore(key, value) ==
  {e \in cache : e.key # key}
    \cup {[key |-> key, value |-> value, exp |-> now + ENHANCEMENT_CACHE_TTL]}

\* -------------------------------------------------------- session resolver

Missing == "(missing)"   \* a header or cookie the request does not carry
UserIds == {"u1", "g1", "n1", "d1", "z1", "l1", "o1", "b1", "e1", "x1"}
Credentials == {Missing, ""} \cup UserIds

\* The caller records the upstream system left under user:{id}: a JSON text
\* (given by its value), a text that is no JSON, an empty string, or no record.
UserStore(id) ==
  CASE id = "u1" -> [raw |-> "json", value |-> UserRegistered]
    [] id = "g1" -> [raw |-> "json", value |-> UserGuest]
    [] id = "n1" -> [raw |-> "json", value |-> UserNoFlag]
    [] id = "d1" -> [raw |-> "json", value |-> DictNoId]
    [] id = "z1" -> [raw |-> "json", value |-> EmptyDict]
    [] id = "l1" -> [raw |-> "json", value |-> ListValue]
    [] id = "o1" -> [raw |-> "json", value |-> NoUser]
    [] id = "b1" -> [raw |-> "garbage"]
    [] id = "e1" -> [raw |-> "empty"]
    [] OTHER -> [raw |-> "absent"]

\* an extraction that reads the cookie before the header
GetUserIdFromRequest_CookieFirst(header, cookie) ==
  IF cookie \notin {Missing, ""} THEN cookie
  ELSE IF header \notin {Missing, ""} THEN header
  ELSE Missing

\* get_user_id_from_request
GetUserIdFromRequest(header, cookie) ==
  IF header \notin {Missing, ""} THEN header
  ELSE IF cookie \notin {Missing, ""} THEN cookie
  ELSE Missing

\* get_user_from_redis, given whether the awaited redis.get raises
GetUserFromRedis(user_id, getRaises) ==
  IF user_id \in {Missing, ""} THEN [raised |-> FALSE, value |-> NoUser, lookups |-> 0]
  ELSE IF getRaises THEN [raised |-> TRUE, lookups |-> 1]
  ELSE LET data == UserStore(user_id) IN
       IF data.raw \in {"absent", "empty"}
       THEN [raised |-> FALSE, value |-> NoUser, lookups |-> 1]
       ELSE IF data.raw = "garbage" THEN [raised |-> TRUE, lookups |-> 1]
       ELSE [raised |-> FALSE, value |-> data.value, lookups |-> 1]

\* mutant: the handler of get_current_user re-raises what the lookup raised
GetCurrentUser_Reraise(header, cookie, getRaises) ==
  LET user_id == GetUserIdFromRequest(header, cookie)
      got == GetUserFromRedis(user_id, getRaises)
  IN IF user_id = Missing THEN [status |-> "401", lookups |-> 0]
     ELSE IF got.raised THEN [status |-> "500", lookups |-> got.lookups]
     ELSE IF ~Truthy(got.value) THEN [status |-> "401", lookups |-> got.lookups]
     ELSE IF ~HasId(got.value) THEN [status |-> "500", lookups |-> got.lookups]
     ELSE [status |-> "ok", user |-> got.value, lookups |-> got.lookups]

\* get_current_user: the caller, or UnauthorizedException (401)
GetCurrentUser(header, cookie, getRaises) ==
  LET user_id == GetUserIdFromRequest(header, cookie)
      got == GetUserFromRedis(user_id, getRaises)
  IN IF user_id = Missing THEN [status |-> "401", lookups |-> 0]
     ELSE IF got.raised THEN [status |-> "401", lookups |-> got.lookups]
     ELSE IF ~Truthy(got.value) THEN [status |-> "401", lookups |-> got.lookups]
     \* logger.debug(f"... {user['id']} ...") raises inside the try block
     ELSE IF ~HasId(got.value) THEN [status |-> "401", lookups |-> got.lookups]
     ELSE [status |-> "ok", user |-> got.value, lookups |-> got.lookups]

\* an optional resolver that asks the store before it looks at the identifier
GetOptionalUser_LookupFirst(header, cookie, getRaises) ==
  LET user_id == GetUserIdFromRequest(header, cookie)
      got == GetUserFromRedis(user_id, getRaises)
  IN [user |-> IF user_id = Missing \/ got.raised THEN NoUser ELSE got.value,
      lookups |-> 1]

\* get_optional_user: the value handed to the rate limiter
GetOptionalUser(header, cookie, getRaises) ==
  LET user_id == GetUserIdFromRequest(header, cookie)
      got == GetUserFromRedis(user_id, getRaises)
  IN IF user_id = Missing THEN [user |-> NoUser, lookups |-> 0]
     ELSE IF got.raised THEN [user |-> NoUser, lookups |-> got.lookups]
     ELSE [user |-> got.value, lookups |-> got.lookups]

\* ------------------------------------------------------------ rate limiter

\* dict.get(key, default)
UserGet(user, field, default) ==
  IF field \in DOMAIN user THEN user[field] ELSE default

\* a limiter that applies the base limit to every caller
RateLimitFor_Flat(user) == DEFAULT_LIMIT

\* rate_limiter_dependency: the limit of the caller's class
RateLimitFor(user) ==
  IF Truthy(user)
  THEN IF UserGet(user, "is_guest", TRUE)
       THEN DEFAULT_LIMIT \div 2
       ELSE DEFAULT_LIMIT
  ELSE DEFAULT_LIMIT \div 4

\* rate_limiter_dependency: the identity the window is keyed by (the caller
\* of RateLimitId has checked HasId: user["id"] raises otherwise)
RateLimitId(user, host) ==
  IF Truthy(user) THEN user["id"] ELSE host

\* check_rate_limit: key = f"rate_limit:{user_id}:{path}"
RateLimitKey(user_id, path) == <<user_id, path>>

\* a purge that keeps the entry whose score is the start of the window
ZRemRangeByScore_Exclusive(set, window_start) == {s \in set : s >= window_start}

\* redis.zremrangebyscore(key, "-inf", window_start): the scores that stay
ZRemRangeByScore(set, window_start) == {s \in set : s > window_start}

\* a check that admits one request more than the limit
IsLimited_Inclusive(request_count, limit) == request_count > limit

\* check_rate_limit: the decision taken on the count
IsLimited(request_count, limit) == request_count >= limit

\* RateLimitException(f"Rate limit exceeded. Maximum {limit} requests per
\* {period} seconds allowed."): the numbers the message states
RateLimitDetail(limit, period) == [limit |-> limit, period |-> period]

\* a handler whose fail-open clause also catches the RateLimitException
OnCheckRaised_AdmitAll(exc) == "admit"

\* mutant: the handler lets a store error through
OnCheckRaised_Propagate(exc) ==
  IF exc = "RateLimitException" THEN "429" ELSE "500"

\* rate_limiter_dependency: what an exception of the check turns into
OnCheckRaised(exc) ==
  IF exc = "RateLimitException" THEN "429" ELSE "admit"

IdleReq == [pc |-> "idle"]

\* rate_limiter_dependency up to the first store call of check_rate_limit
RlBegin(p, user, host, path) ==
  /\ req[p].pc = "idle"
  /\ nchecks < MaxChecks
  /\ req' = [req EXCEPT ![p] =
               [pc |-> "zrem", caller |-> user,
                key |-> RateLimitKey(RateLimitId(user, host), path),
                limit |-> RateLimitFor(user), t |-> now, failed |-> FALSE,
                out |-> "none"]]
  /\ nchecks' = nchecks + 1
  /\ UNCHANGED <<svcVars, now, zset, zttl, hist, enhVars, taskVars>>

\* a store call of the check raises: rate_limiter_dependency's handler decides
RlStoreRaises(p) ==
  /\ req[p].pc \in {"zrem", "zcard", "zadd", "expire"}
  /\ req' = [req EXCEPT ![p].pc = "done", ![p].failed = TRUE,
                        ![p].out = OnCheckRaised("RedisError")]
  /\ UNCHANGED <<svcVars, now, zset, zttl, hist, nchecks, enhVars, taskVars>>

\* check_rate_limit: await redis.zremrangebyscore(key, "-inf", window_start)
RlZrem(p) ==
  /\ req[p].pc = "zrem"
  /\ LET k == req[p].key
         left == ZRemRangeByScore(zset[k], req[p].t - DEFAULT_PERIOD)
     IN /\ zset' = [zset EXCEPT ![k] = left]
        /\ zttl' = [zttl EXCEPT ![k] = IF left = {} THEN NoTtl ELSE @]
  /\ req' = [req EXCEPT ![p].pc = "zcard"]
  /\ UNCHANGED <<svcVars, now, hist, nchecks, enhVars, taskVars>>

\* a check that records the attempt it rejects
RlZcard_RecordsRejected(p) ==
  /\ req[p].pc = "zcard"
  /\ LET request_count == Cardinality(zset[req[p].key]) IN
     IF IsLimited(request_count, req[p].limit)
     THEN /\ req' = [req EXCEPT ![p] = Upd(@,
                [pc |-> "done", request_count |-> request_count,
                 is_limited |-> TRUE,
                 out |-> OnCheckRaised("RateLimitException"),
                 detail |-> RateLimitDetail(req[p].limit, DEFAULT_PERIOD)])]
          /\ zset' = [zset EXCEPT ![req[p].key] = @ \cup {req[p].t}]
          /\ zttl' = [zttl EXCEPT ![req[p].key] =
                        now + DEFAULT_PERIOD + ExpireSlack]
     ELSE /\ req' = [req EXCEPT ![p] = Upd(@,
                [pc |-> "zadd", request_count |-> request_count])]
          /\ UNCHANGED <<zset, zttl>>
  /\ UNCHANGED <<svcVars, now, hist, nchecks, enhVars, taskVars>>

\* check_rate_limit: await redis.zcard(key), and the comparison with the limit
RlZcard(p) ==
  /\ req[p].pc = "zcard"
  /\ LET request_count == Cardinality(zset[req[p].key]) IN
     IF IsLimited(request_count, req[p].limit)
     THEN req' = [req EXCEPT ![p] = Upd(@,
            [pc |-> "done", request_count |-> request_count,
             is_limited |-> TRUE,
             out |-> OnCheckRaised("RateLimitException"),
             detail |-> RateLimitDetail(req[p].limit, DEFAULT_PERIOD)])]
     ELSE req' = [req EXCEPT ![p] = Upd(@,
            [pc |-> "zadd", request_count |-> request_count])]
  /\ UNCHANGED <<svcVars, now, zset, zttl, hist, nchecks, enhVars, taskVars>>

\* check_rate_limit: await redis.zadd(key, {str(now): now})
RlZadd(p) ==
  /\ req[p].pc = "zadd"
  /\ zset' = [zset EXCEPT ![req[p].key] = @ \cup {req[p].t}]
  /\ req' = [req EXCEPT ![p].pc = "expire"]
  /\ UNCHANGED <<svcVars, now, zttl, hist, nchecks, enhVars, taskVars>>

\* check_rate_limit: await redis.expire(key, period + 10), then return False
RlExpire(p) ==
  /\ req[p].pc = "expire"
  /\ zttl' = [zttl EXCEPT ![req[p].key] =
                IF zset[req[p].key] = {} THEN @
                ELSE now + DEFAULT_PERIOD + ExpireSlack]
  /\ req' = [req EXCEPT ![p].pc = "done", ![p].out = "admit"]
  /\ UNCHANGED <<svcVars, now, zset, hist, nchecks, enhVars, taskVars>>

\* the dependency returns (or raises the 429) and the request is answered
RlReturn(p) ==
  /\ req[p].pc = "done"
  /\ hist' = [hist EXCEPT ![req[p].key] =
                Append(@, [t |-> req[p].t, limit |-> req[p].limit,
                           out |-> req[p].out, failed |-> req[p].failed,
                           quick |-> req[p].t = now])]
  /\ req' = [req EXCEPT ![p] = IdleReq]
  /\ UNCHANGED <<svcVars, now, zset, zttl, nchecks, enhVars, taskVars>>

\* time passes; the store drops the keys whose expiry is reached
Tick ==
  /\ now < MaxTime
  /\ now' = now + 1
  /\ LET dead == {k \in Keys : zttl[k] # NoTtl /\ zttl[k] <= now + 1}
     IN /\ zset' = [k \in Keys |-> IF k \in dead THEN {} ELSE zset[k]]
        /\ zttl' = [k \in Keys |-> IF k \in dead THEN NoTtl ELSE zttl[k]]
  /\ cache' = {e \in cache : e.exp > now + 1}
  /\ tasks' = {t \in tasks : t.exp > now + 1}
  /\ UNCHANGED <<req, hist, nchecks, enable_fallback, written, bg, polls, svcVars>>

InitRL ==
  /\ now = 0
  /\ zset = [k \in Keys |-> {}]
  /\ zttl = [k \in Keys |-> NoTtl]
  /\ req = [p \in Procs |-> IdleReq]
  /\ hist = [k \in Keys |-> <<>>]
  /\ nchecks = 0
  /\ enable_fallback = TRUE
  /\ cache = {}
  /\ written = {}
  /\ tasks = {}
  /\ bg = [t \in TaskIds |-> NoTask]
  /\ polls = [t \in TaskIds |-> NoPoll]
  /\ Warmed

NextRL ==
  \/ Tick
  \/ \E p \in SeqProcs, user \in RlUsers,
        host \in ClientHosts, path \in Paths : RlBegin(p, user, host, path)
  \/ \E p \in SeqProcs : RlStoreRaises(p)
  \/ \E p \in SeqProcs : RlZrem(p)
  \/ \E p \in SeqProcs : RlZcard(p)
  \/ \E p \in SeqProcs : RlZadd(p)
  \/ \E p \in SeqProcs : RlExpire(p)
  \/ \E p \in SeqProcs : RlReturn(p)

SpecRL == InitRL /\ [][NextRL]_vars

\* the callers of get_enhancement_service
ServiceCallers == {"warmup", "sync", "batch", "background", "health"}

\* a request, a background task, a health check or the warm-up reaches its
\* call of get_enhancement_service
SvcCall(p, kind, raises) ==
  /\ req[p].pc = "idle"
  /\ LET g == GetEnhancementService(enhancement_service, constructed + 1, raises)
     IN /\ enhancement_service' = g.global
        /\ constructed' = constructed + g.built
        /\ req' = [req EXCEPT ![p] =
                     [pc |-> "svc", kind |-> kind, service |-> g.returned]]
  /\ UNCHANGED <<now, rlVars, enhVars, taskVars>>

\* the caller has used the service (or handled the error) and ends
SvcReturn(p) ==
  /\ req[p].pc = "svc"
  /\ req' = [req EXCEPT ![p] = IdleReq]
  /\ UNCHANGED <<svcVars, now, rlVars, enhVars, taskVars>>

\* the module is imported and nothing has called the getter yet
InitSvc ==
  /\ now = 0
  /\ zset = [k \in Keys |-> {}]
  /\ zttl = [k \in Keys |-> NoTtl]
  /\ req = [p \in Procs |-> IdleReq]
  /\ hist = [k \in Keys |-> <<>>]
  /\ nchecks = 0
  /\ enable_fallback = TRUE
  /\ cache = {}
  /\ written = {}
  /\ tasks = {}
  /\ bg = [t \in TaskIds |-> NoTask]
  /\ polls = [t \in TaskIds |-> NoPoll]
  /\ enhancement_service = NoService
  /\ constructed = 0

NextSvc ==
  \/ \E p \in Procs, kind \in ServiceCallers, raises \in BOOLEAN :
        SvcCall(p, kind, raises)
  \/ \E p \in Procs : SvcReturn(p)

SpecSvc == InitSvc /\ [][NextSvc]_vars

\* the dependency serving requests of one network address concurrently: the
\* awaits of check_rate_limit interleave
RaceUsers == {NoUser}
RaceArrivals == {1, 2, 3}   \* a burst of three requests

NextRace ==
  \/ Tick
  \/ \E p \in Procs, user \in RaceUsers, host \in ClientHosts, path \in Paths :
        nchecks + 1 \in RaceArrivals /\ RlBegin(p, user, host, path)
  \/ \E p \in Procs : RlStoreRaises(p)
  \/ \E p \in Procs : RlZrem(p)
  \/ \E p \in Procs : RlZcard(p)
  \/ \E p \in Procs : RlZadd(p)
  \/ \E p \in Procs : RlExpire(p)
  \/ \E p \in Procs : RlReturn(p)

SpecRace == InitRL /\ [][NextRace]_vars

\* the dependency for callers of every class, up to the count of the window
TierUsers == ResolvedUsers \cup {NoUser}

NextTier ==
  \/ Tick
  \/ \E p \in SeqProcs, user \in TierUsers,
        host \in ClientHosts, path \in Paths : RlBegin(p, user, host, path)
  \/ \E p \in SeqProcs : RlStoreRaises(p)
  \/ \E p \in SeqProcs : RlZrem(p)
  \/ \E p \in SeqProcs : RlZcard(p)
  \/ \E p \in SeqProcs : RlReturn(p)

SpecTier == InitRL /\ [][NextTier]_vars

\* ------------------------------------------------ session resolver, steps

\* a request arrives at a dependency on the session resolver
AuthBegin(p, mode, header, cookie) ==
  /\ req[p].pc = "idle"
  /\ req' = [req EXCEPT ![p] = [pc |-> "resolve", mode |-> mode,
                                header |-> header, cookie |-> cookie]]
  /\ UNCHANGED <<svcVars, now, zset, zttl, hist, nchecks, enhVars, taskVars>>

\* get_current_user / get_optional_user run, the store answering or raising
AuthResolve(p, getRaises) ==
  /\ req[p].pc = "resolve"
  /\ req' = [req EXCEPT ![p] =
       [pc |-> "resolved", mode |-> req[p].mode, header |-> req[p].header,
        cookie |-> req[p].cookie, storeRaised |-> getRaises,
        res |-> IF req[p].mode = "required"
                THEN GetCurrentUser(req[p].header, req[p].cookie, getRaises)
                ELSE [status |-> "ok"] @@
                     GetOptionalUser(req[p].header, req[p].cookie, getRaises)]]
  /\ UNCHANGED <<svcVars, now, zset, zttl, hist, nchecks, enhVars, taskVars>>

\* the request is answered
AuthReturn(p) ==
  /\ req[p].pc = "resolved"
  /\ req' = [req EXCEPT ![p] = IdleReq]
  /\ UNCHANGED <<svcVars, now, zset, zttl, hist, nchecks, enhVars, taskVars>>

NextAuth ==
  \/ \E p \in SeqProcs, mode \in {"required", "optional"},
        header \in Credentials, cookie \in Credentials :
          AuthBegin(p, mode, header, cookie)
  \/ \E p \in SeqProcs, getRaises \in BOOLEAN : AuthResolve(p, getRaises)
  \/ \E p \in SeqProcs : AuthReturn(p)

SpecAuth == InitRL /\ [][NextAuth]_vars

\* ------------------------------------------------- POST /ai/enhance, body

\* messages as EnhanceRequest hands them over (validated and stripped)
MsgHeyU == <<"h", "e", "y", " ", "u">>
MsgBro == <<"b", "r", "o">>
Messages == {MsgHeyU, MsgBro}

\* what the awaited ollama.chat does: it raises, or it returns a content
ReplyHello == <<"H", "e", "l", "l", "o", " ", "y", "o", "u", ".">>
ReplyHi == <<"H", "i", " ", "t", "h", "e", "r", "e", ".">>
ReplyShort == <<"H", "i">>
ReplyLong == <<"G", "o", "o", "d", " ", "d", "a", "y", " ", "t", "o", " ", "y", "o", "u", ",", " ", "m", "y", " ", "f", "r", "i", "e", "n", "d", ".">>
ReplyHeyYou == <<"H", "e", "y", " ", "y", "o", "u", ".">>
ReplyEcho == <<"h", "e", "y", " ", "u">>
ReplyQuoted == <<"\"", "H", "i", "\"">>
Replies == {[ok |-> FALSE]} \cup
  {[ok |-> TRUE, content |-> c] :
     c \in {ReplyHello, ReplyHi, ReplyShort, ReplyLong, ReplyHeyYou, ReplyEcho,
            ReplyQuoted}}

EnhUsers == {"u1"}
EnhStyles == {"professional"}
EnhTones == {"neutral"}

\* enhance_message / _process_enhancement_background: service.enhance(...)
\* followed by service.analyze_improvements(...) on its result
EnhanceInputs == Messages \X EnhStyles \X EnhTones \X Replies \X BOOLEAN
EnhanceThenAnalyze(message, style, tone, reply, fallback) ==
  With(Enhance(message, style, tone, reply, fallback), LAMBDA e :
    [enhance |-> e,
     analyze |-> IF e.raised THEN e
                 ELSE AnalyzeImprovements(message, e.enhanced, style, tone)])
EnhanceOutcome ==
  [i \in EnhanceInputs |-> EnhanceThenAnalyze(i[1], i[2], i[3], i[4], i[5])]
    @@ <<>>   \* as an explicit table, computed once

\* enhance_message: the locals of the body when it is entered
SyncEntry(user_id, message, style, tone) ==
  [pc |-> "cacheget", kind |-> "sync", user_id |-> user_id,
   message |-> message, style |-> style, tone |-> tone,
   prior |-> {w \in written :
                w.key = BuildCacheKey(user_id, message, style, tone)},
   readRaised |-> FALSE, llm |-> FALSE, wrote |-> FALSE]

\* enhance_message is entered (the dependencies admitted the request)
EnhBegin(p, user_id, message, style, tone) ==
  /\ req[p].pc = "idle"
  /\ req' = [req EXCEPT ![p] = SyncEntry(user_id, message, style, tone)]
  /\ UNCHANGED <<svcVars, now, rlVars, enhVars, taskVars>>

\* enhance_message: await _get_cached_result(...); a hit is answered at once
EnhCacheGet(p, raises) ==
  /\ req[p].pc = "cacheget" /\ req[p].kind = "sync"
  /\ LET found == IF raises THEN {}
                  ELSE CacheLookup(BuildCacheKey(req[p].user_id, req[p].message,
                                                 req[p].style, req[p].tone))
     IN IF found # {}
        THEN LET e == CHOOSE e \in found : TRUE IN
             req' = [req EXCEPT ![p] = Upd(@,
               [pc |-> "respond", readRaised |-> raises, readAt |-> now,
                resp |-> [status |-> 200, enhanced |-> e.value.enhanced,
                          improvements |-> e.value.improvements,
                          metadata |-> e.value.metadata, cached |-> TRUE]])]
        ELSE req' = [req EXCEPT ![p] = Upd(@,
               [pc |-> "chat", readRaised |-> raises, readAt |-> now])]
  /\ UNCHANGED <<svcVars, now, rlVars, enhVars, taskVars>>

\* enhance_message: await service.enhance(...), then analyze_improvements
EnhChat(p, reply) ==
  /\ req[p].pc = "chat" /\ req[p].kind = "sync"
  /\ LET o == EnhanceOutcome[<<req[p].message, req[p].style, req[p].tone, reply,
                               enable_fallback>>]
         e == o.enhance
         a == o.analyze
     IN IF e.raised \/ a.raised
        THEN req' = [req EXCEPT ![p] = Upd(@,
               [pc |-> "respond", llm |-> TRUE, reply |-> reply, enh |-> e,
                resp |-> [status |-> 500]])]
        ELSE req' = [req EXCEPT ![p] = Upd(@,
               [pc |-> "cacheset", llm |-> TRUE, reply |-> reply, enh |-> e,
                resp |-> [status |-> 200, enhanced |-> e.enhanced,
                          improvements |-> a.improvements,
                          metadata |-> e.metadata, cached |-> FALSE]])]
  /\ UNCHANGED <<svcVars, now, rlVars, enhVars, taskVars>>

\* a body that caches generative results only
EnhCacheSet_SkipsFallback(p, raises) ==
  /\ req[p].pc = "cacheset" /\ req[p].kind = "sync"
  /\ cache' = IF raises \/ req[p].resp.metadata.method = "fallback" THEN cache
              ELSE CacheStore(BuildCacheKey(req[p].user_id, req[p].message,
                                            req[p].style, req[p].tone),
                              [enhanced |-> req[p].resp.enhanced,
                               improvements |-> req[p].resp.improvements,
                               metadata |-> req[p].resp.metadata])
  /\ req' = [req EXCEPT ![p] = Upd(@, [pc |-> "respond", wrote |-> ~raises,
                                        wroteAt |-> now])]
  /\ UNCHANGED <<svcVars, now, rlVars, enable_fallback, written, taskVars>>

\* a body that answers 500 when the cache write raises
EnhCacheSet_Surfaces(p, raises) ==
  /\ req[p].pc = "cacheset" /\ req[p].kind = "sync"
  /\ cache' = IF raises THEN cache
              ELSE CacheStore(BuildCacheKey(req[p].user_id, req[p].message,
                                            req[p].style, req[p].tone),
                              [enhanced |-> req[p].resp.enhanced,
                               improvements |-> req[p].resp.improvements,
                               metadata |-> req[p].resp.metadata])
  /\ req' = [req EXCEPT ![p] = Upd(@,
               [pc |-> "respond", wrote |-> ~raises, wroteAt |-> now,
                resp |-> IF raises THEN [status |-> 500] ELSE req[p].resp])]
  /\ UNCHANGED <<svcVars, now, rlVars, enable_fallback, written, taskVars>>

\* enhance_message: await _cache_result(...), then the response
EnhCacheSet(p, raises) ==
  /\ req[p].pc = "cacheset" /\ req[p].kind = "sync"
  /\ cache' = IF raises THEN cache
              ELSE CacheStore(BuildCacheKey(req[p].user_id, req[p].message,
                                            req[p].style, req[p].tone),
                              [enhanced |-> req[p].resp.enhanced,
                               improvements |-> req[p].resp.improvements,
                               metadata |-> req[p].resp.metadata])
  /\ req' = [req EXCEPT ![p] = Upd(@, [pc |-> "respond", wrote |-> ~raises,
                                        wroteAt |-> now])]
  /\ UNCHANGED <<svcVars, now, rlVars, enable_fallback, written, taskVars>>

\* the response leaves
EnhReturn(p) ==
  /\ req[p].pc = "respond" /\ req[p].kind = "sync"
  /\ written' =
       IF req[p].wrote
       THEN LET k == BuildCacheKey(req[p].user_id, req[p].message, req[p].style,
                                   req[p].tone)
            IN {w \in written : w.key # k}
                 \cup {[key |-> k, enhanced |-> req[p].resp.enhanced,
                        at |-> req[p].wroteAt, user_id |-> req[p].user_id,
                        method |-> req[p].resp.metadata.method]}
       ELSE written
  /\ req' = [req EXCEPT ![p] = IdleReq]
  /\ UNCHANGED <<svcVars, now, rlVars, enable_fallback, cache, taskVars>>

\* OllamaClient.health_check: GET /api/tags answered 200; an error of the
\* request is logged and gives False
HealthCheck(reachable) == reachable

\* OllamaClient.list_models: the names GET /api/tags lists; an error of the
\* request is logged and gives []
ListModels(reachable) == IF reachable THEN <<ModelName>> ELSE <<>>

\* get_model_info, given whether the backend answers and whether building the
\* service or the response raises
GetModelInfo(reachable, raises) ==
  IF raises THEN [status |-> 503, detail |-> "AI service unavailable"]
  ELSE [status |-> 200,
        body |-> [status |-> IF HealthCheck(reachable) THEN "ready"
                             ELSE "unavailable",
                  model |-> ModelName,
                  available_models |-> ListModels(reachable),
                  health |-> HealthCheck(reachable)]]

\* GET /ai/model-info: the endpoint has no dependency
ModelInfo(p, reachable, raises) ==
  /\ req[p].pc = "idle"
  /\ req' = [req EXCEPT ![p] =
       [pc |-> "respond", kind |-> "info", reachable |-> reachable,
        resp |-> GetModelInfo(reachable, raises)]]
  /\ UNCHANGED <<svcVars, now, rlVars, enhVars, taskVars>>

\* the response of GET /ai/model-info leaves
ModelInfoReturn(p) ==
  /\ req[p].pc = "respond" /\ req[p].kind = "info"
  /\ req' = [req EXCEPT ![p] = IdleReq]
  /\ UNCHANGED <<svcVars, now, rlVars, enhVars, taskVars>>

InitEnh ==
  /\ now = 0
  /\ zset = [k \in Keys |-> {}]
  /\ zttl = [k \in Keys |-> NoTtl]
  /\ req = [p \in Procs |-> IdleReq]
  /\ hist = [k \in Keys |-> <<>>]
  /\ nchecks = 0
  /\ enable_fallback \in BOOLEAN
  /\ cache = {}
  /\ written = {}
  /\ tasks = {}
  /\ bg = [t \in TaskIds |-> NoTask]
  /\ polls = [t \in TaskIds |-> NoPoll]
  /\ Warmed

NextEnh ==
  \/ Tick
  \/ \E p \in SeqProcs, user_id \in EnhUsers, message \in Messages,
        style \in EnhStyles, tone \in EnhTones :
          EnhBegin(p, user_id, message, style, tone)
  \/ \E p \in SeqProcs, raises \in BOOLEAN : EnhCacheGet(p, raises)
  \/ \E p \in SeqProcs, reply \in Replies : EnhChat(p, reply)
  \/ \E p \in SeqProcs, raises \in BOOLEAN : EnhCacheSet(p, raises)
  \/ \E p \in SeqProcs : EnhReturn(p)
  \/ \E p \in SeqProcs, reachable \in BOOLEAN, raises \in BOOLEAN :
        ModelInfo(p, reachable, raises)
  \/ \E p \in SeqProcs : ModelInfoReturn(p)

SpecEnh == InitEnh /\ [][NextEnh]_vars

\* POST /ai/enhance served concurrently for one caller who sends the same
\* message, style and tone twice; the store answers every call
ShareUsers == {"u1", "g1"}
ShareReplies == {[ok |-> TRUE, content |-> c] : c \in {ReplyHello, ReplyHi}}

NextShare ==
  \/ Tick
  \/ \E p \in PairProcs, user_id \in EnhUsers :
        EnhBegin(p, user_id, MsgHeyU, "professional", "neutral")
  \/ \E p \in PairProcs : EnhCacheGet(p, FALSE)
  \/ \E p \in PairProcs, reply \in ShareReplies : EnhChat(p, reply)
  \/ \E p \in PairProcs : EnhCacheSet(p, FALSE)
  \/ \E p \in PairProcs : EnhReturn(p)

SpecShare == InitRL /\ [][NextShare]_vars

\* POST /ai/enhance called by the two callers, one call after the other
NextCallers ==
  \/ Tick
  \/ \E p \in SeqProcs, user_id \in ShareUsers :
        EnhBegin(p, user_id, MsgHeyU, "professional", "neutral")
  \/ \E p \in SeqProcs, raises \in BOOLEAN : EnhCacheGet(p, raises)
  \/ \E p \in SeqProcs, reply \in ShareReplies : EnhChat(p, reply)
  \/ \E p \in SeqProcs, raises \in BOOLEAN : EnhCacheSet(p, raises)
  \/ \E p \in SeqProcs : EnhReturn(p)

SpecCallers == InitRL /\ [][NextCallers]_vars

\* ------------------------------------------ POST /ai/enhance/async, tasks

\* _store_task_status: the record written for a status (task_id, status and
\* a default created_at, overridden by the fields of data)
TaskRecord(task_id, status, data) ==
  data @@ [task_id |-> task_id, status |-> status, created_at |-> now]

\* a store write of the failure handler that lands on a completed record
TaskStore_Reopen(task_id, status, data) ==
  {t \in tasks : t.id # task_id}
    \cup {[id |-> task_id, exp |-> now + TASK_TTL,
           rec |-> TaskRecord(task_id,
                              IF status = "completed" THEN "pending" ELSE status,
                              data)]}

\* _store_task_status: redis.set(task_key, json.dumps(task_data), ex=ttl)
TaskStore(task_id, status, data) ==
  {t \in tasks : t.id # task_id}
    \cup {[id |-> task_id, exp |-> now + TASK_TTL,
           rec |-> TaskRecord(task_id, status, data)]}

\* _store_task_status as a whole: an error of the store is logged only
StoreTaskStatus(task_id, status, data, raises) ==
  tasks' = IF raises THEN tasks ELSE TaskStore(task_id, status, data)

\* _get_task_status: the records found (none on a store error)
GetTaskStatus(task_id, raises) ==
  IF raises THEN {} ELSE {t.rec : t \in {u \in tasks : u.id = task_id}}

\* _process_enhancement_background: the fields written with completed
CompletedData(message, style, tone, result) ==
  [created_at |-> now, completed_at |-> now, original |-> message,
   enhanced |-> result.enhanced, style |-> style, tone |-> tone,
   improvements |-> result.improvements, metadata |-> result.metadata,
   cached |-> result.cached]

\* a failure record that keeps the message it failed on
FailedData_WithOriginal(message, error) ==
  [created_at |-> now, completed_at |-> now, original |-> message,
   error |-> error]

\* _process_enhancement_background: the fields written with failed
FailedData(message, error) ==
  [created_at |-> now, completed_at |-> now, error |-> error]

NoCallback == "(none)"
CallbackUrls == {NoCallback, "http://cb"}
TaskUsers == {"u1"}
TaskReplies == {r \in Replies : ~r.ok \/ r.content \in {ReplyHello, ReplyShort}}

\* uuid.uuid4(): an id no task holds yet
FreshTaskIds ==
  {t \in TaskIds : bg[t].pc = "none"
                   /\ \A p \in Procs : req[p].pc = "storepending" => req[p].task_id # t}

\* enhance_message_async: the locals of the body when it is entered
AsyncEntry(user_id, message, style, tone, callback_url) ==
  [pc |-> "storepending", kind |-> "async", user_id |-> user_id,
   message |-> message, style |-> style, tone |-> tone,
   callback_url |-> callback_url,
   task_id |-> CHOOSE t \in FreshTaskIds : TRUE]

\* enhance_message_async is entered (the dependencies admitted the request)
AsyncBegin(p, user_id, message, style, tone, callback_url) ==
  /\ req[p].pc = "idle"
  /\ FreshTaskIds # {}
  /\ req' = [req EXCEPT ![p] =
       AsyncEntry(user_id, message, style, tone, callback_url)]
  /\ UNCHANGED <<svcVars, now, rlVars, enhVars, taskVars>>

\* enhance_message_async: await _store_task_status(pending), then
\* background_tasks.add_task(...) and the 202 response
AsyncStorePending(p, raises) ==
  /\ req[p].pc = "storepending"
  /\ StoreTaskStatus(req[p].task_id, "pending",
                     [created_at |-> now, message |-> req[p].message], raises)
  /\ bg' = [bg EXCEPT ![req[p].task_id] =
       [pc |-> "start", user_id |-> req[p].user_id, message |-> req[p].message,
        style |-> req[p].style, tone |-> req[p].tone,
        callback_url |-> req[p].callback_url, issuedAt |-> now]]
  /\ req' = [req EXCEPT ![p] = Upd(@,
       [pc |-> "respond",
        resp |-> [status |-> 202, task_id |-> req[p].task_id,
                  task_status |-> "pending"]])]
  /\ UNCHANGED <<svcVars, now, rlVars, enhVars, polls>>

\* the 202 response leaves
AsyncReturn(p) ==
  /\ req[p].pc = "respond" /\ req[p].kind = "async"
  /\ req' = [req EXCEPT ![p] = IdleReq]
  /\ UNCHANGED <<svcVars, now, rlVars, enhVars, taskVars>>

\* _process_enhancement_background: the write of processing
BgProcessing(t, raises) ==
  /\ bg[t].pc = "start"
  /\ \A p \in Procs : ~(req[p].pc = "respond" /\ req[p].kind = "async"
                         /\ req[p].task_id = t)
  /\ StoreTaskStatus(t, "processing",
                     [created_at |-> now, message |-> bg[t].message], raises)
  /\ bg' = [bg EXCEPT ![t] = Upd(@, [pc |-> "cacheget"])]
  /\ UNCHANGED <<svcVars, now, req, rlVars, enhVars, polls>>

\* _process_enhancement_background: await _get_cached_result(...)
BgCacheGet(t, raises) ==
  /\ bg[t].pc = "cacheget"
  /\ LET found == IF raises THEN {}
                  ELSE CacheLookup(BuildCacheKey(bg[t].user_id, bg[t].message,
                                                 bg[t].style, bg[t].tone))
     IN IF found # {}
        THEN LET e == CHOOSE e \in found : TRUE IN
             bg' = [bg EXCEPT ![t] = Upd(@,
               [pc |-> "storecompleted",
                result |-> [enhanced |-> e.value.enhanced,
                            improvements |-> e.value.improvements,
                            metadata |-> e.value.metadata, cached |-> TRUE]])]
        ELSE bg' = [bg EXCEPT ![t] = Upd(@, [pc |-> "chat"])]
  /\ UNCHANGED <<svcVars, now, req, rlVars, enhVars, tasks, polls>>

\* _process_enhancement_background: await service.enhance(...), then
\* analyze_improvements; an exception goes to the handler
BgChat(t, reply) ==
  /\ bg[t].pc = "chat"
  /\ LET o == EnhanceOutcome[<<bg[t].message, bg[t].style, bg[t].tone, reply,
                               enable_fallback>>]
     IN IF o.enhance.raised \/ o.analyze.raised
        THEN bg' = [bg EXCEPT ![t] = Upd(@,
               [pc |-> "storefailed",
                error |-> IF o.enhance.raised THEN o.enhance.error
                          ELSE o.analyze.error])]
        ELSE bg' = [bg EXCEPT ![t] = Upd(@,
               [pc |-> "cacheset",
                result |-> [enhanced |-> o.enhance.enhanced,
                            improvements |-> o.analyze.improvements,
                            metadata |-> o.enhance.metadata, cached |-> FALSE]])]
  /\ UNCHANGED <<svcVars, now, req, rlVars, enhVars, tasks, polls>>

\* _process_enhancement_background: await _cache_result(...)
BgCacheSet(t, raises) ==
  /\ bg[t].pc = "cacheset"
  /\ cache' = IF raises THEN cache
              ELSE CacheStore(BuildCacheKey(bg[t].user_id, bg[t].message,
                                            bg[t].style, bg[t].tone),
                              [enhanced |-> bg[t].result.enhanced,
                               improvements |-> bg[t].result.improvements,
                               metadata |-> bg[t].result.metadata])
  /\ bg' = [bg EXCEPT ![t] = Upd(@, [pc |-> "storecompleted"])]
  /\ UNCHANGED <<svcVars, now, req, rlVars, enable_fallback, written, tasks, polls>>

\* _process_enhancement_background: the write of completed
BgStoreCompleted(t, raises) ==
  /\ bg[t].pc = "storecompleted"
  /\ StoreTaskStatus(t, "completed",
       CompletedData(bg[t].message, bg[t].style, bg[t].tone, bg[t].result),
       raises)
  /\ bg' = [bg EXCEPT ![t] = Upd(@,
       [pc |-> IF bg[t].callback_url # NoCallback THEN "webhook" ELSE "finished"])]
  /\ UNCHANGED <<svcVars, now, req, rlVars, enhVars, polls>>

\* _process_enhancement_background, except Exception: the write of failed
BgStoreFailed(t, raises) ==
  /\ bg[t].pc = "storefailed"
  /\ StoreTaskStatus(t, "failed", FailedData(bg[t].message, bg[t].error), raises)
  /\ bg' = [bg EXCEPT ![t] = Upd(@,
       [pc |-> IF bg[t].callback_url # NoCallback THEN "webhookfailed"
               ELSE "finished"])]
  /\ UNCHANGED <<svcVars, now, req, rlVars, enhVars, polls>>

\* _process_enhancement_background: the webhook call of either branch; a
\* failure of the call is logged only
BgWebhook(t, raises) ==
  /\ bg[t].pc \in {"webhook", "webhookfailed"}
  /\ bg' = [bg EXCEPT ![t] = Upd(@,
       [pc |-> "finished",
        notified |->
          IF bg[t].pc = "webhook"
          THEN [task_id |-> t, delivered |-> ~raises, status |-> "completed"]
          ELSE [task_id |-> t, delivered |-> ~raises, status |-> "failed",
                error |-> bg[t].error]])]
  /\ UNCHANGED <<svcVars, now, req, rlVars, enhVars, tasks, polls>>

\* get_enhancement_status: 404 when _get_task_status finds nothing
Poll(t, raises) ==
  /\ LET found == GetTaskStatus(t, raises) IN
     polls' = [polls EXCEPT ![t] =
       IF found = {} THEN Upd(@, [found |-> FALSE])
       ELSE [status |-> (CHOOSE r \in found : TRUE).status, found |-> TRUE]]
  /\ UNCHANGED <<svcVars, now, req, rlVars, enhVars, tasks, bg>>

NextTask ==
  \/ Tick
  \/ \E p \in SeqProcs, user_id \in TaskUsers, message \in Messages,
        style \in EnhStyles, tone \in EnhTones, callback_url \in CallbackUrls :
          AsyncBegin(p, user_id, message, style, tone, callback_url)
  \/ \E p \in SeqProcs, raises \in BOOLEAN : AsyncStorePending(p, raises)
  \/ \E p \in SeqProcs : AsyncReturn(p)
  \/ \E t \in TaskIds, raises \in BOOLEAN : BgProcessing(t, raises)
  \/ \E t \in TaskIds, raises \in BOOLEAN : BgCacheGet(t, raises)
  \/ \E t \in TaskIds, reply \in TaskReplies : BgChat(t, reply)
  \/ \E t \in TaskIds, raises \in BOOLEAN : BgCacheSet(t, raises)
  \/ \E t \in TaskIds, raises \in BOOLEAN : BgStoreCompleted(t, raises)
  \/ \E t \in TaskIds, raises \in BOOLEAN : BgStoreFailed(t, raises)
  \/ \E t \in TaskIds, raises \in BOOLEAN : BgWebhook(t, raises)
  \/ \E t \in TaskIds, raises \in BOOLEAN : Poll(t, raises)

\* the cache entry an earlier enhance request of the caller leaves behind
WarmEntry ==
  LET o == EnhanceOutcome[<<MsgHeyU, "professional", "neutral",
                            [ok |-> TRUE, content |-> ReplyHello], TRUE>>]
  IN [key |-> BuildCacheKey("u1", MsgHeyU, "professional", "neutral"),
      value |-> [enhanced |-> o.enhance.enhanced,
                 improvements |-> o.analyze.improvements,
                 metadata |-> o.enhance.metadata],
      exp |-> ENHANCEMENT_CACHE_TTL]

\* the store is empty, or holds what an earlier enhance request cached
InitTask ==
  /\ now = 0
  /\ zset = [k \in Keys |-> {}]
  /\ zttl = [k \in Keys |-> NoTtl]
  /\ req = [p \in Procs |-> IdleReq]
  /\ hist = [k \in Keys |-> <<>>]
  /\ nchecks = 0
  /\ enable_fallback \in BOOLEAN
  /\ cache \in {{}, {WarmEntry}}
  /\ written = {}
  /\ tasks = {}
  /\ bg = [t \in TaskIds |-> NoTask]
  /\ polls = [t \in TaskIds |-> NoPoll]
  /\ Warmed

SpecTask == InitTask /\ [][NextTask]_vars

\* a step of a background task; every awaited call returns, with a value or
\* with an error
BgNext ==
  \/ \E t \in TaskIds, raises \in BOOLEAN : BgProcessing(t, raises)
  \/ \E t \in TaskIds, raises \in BOOLEAN : BgCacheGet(t, raises)
  \/ \E t \in TaskIds, reply \in TaskReplies : BgChat(t, reply)
  \/ \E t \in TaskIds, raises \in BOOLEAN : BgCacheSet(t, raises)
  \/ \E t \in TaskIds, raises \in BOOLEAN : BgStoreCompleted(t, raises)
  \/ \E t \in TaskIds, raises \in BOOLEAN : BgStoreFailed(t, raises)
  \/ \E t \in TaskIds, raises \in BOOLEAN : BgWebhook(t, raises)

\* the event loop runs every request and every scheduled background task on
SpecTaskFair ==
  /\ SpecTask
  /\ WF_vars(\E p \in SeqProcs, raises \in BOOLEAN : AsyncStorePending(p, raises))
  /\ WF_vars(\E p \in SeqProcs : AsyncReturn(p))
  /\ WF_vars(BgNext)

\* ------------------------------------------- POST /ai/enhance/batch, body

MaxBatch == 2          \* messages submitted in one batch
MaxBatchSize == 5      \* BatchEnhanceRequest: max_length=5
MinMessageLen == 3     \* enhance_messages_batch: len(message.strip()) < 3

MsgBlank == <<" ">>
MsgOk == <<"o", "k">>
BatchMessages == {MsgBlank, MsgOk, MsgHeyU, MsgBro}
Batches == UNION {[1..n -> BatchMessages] : n \in 1..MaxBatch}

RECURSIVE StripAndDropBlank(_)
\* [msg.strip() for msg in v if msg.strip()]
StripAndDropBlank(v) ==
  IF v = <<>> THEN <<>>
  ELSE IF Strip(Head(v)) = <<>> THEN StripAndDropBlank(Tail(v))
  ELSE <<Strip(Head(v))>> \o StripAndDropBlank(Tail(v))

\* BatchEnhanceRequest: Field(min_length=1, max_length=5), validate_messages
ValidateMessages(v) ==
  IF Len(v) < 1 \/ Len(v) > MaxBatchSize THEN [ok |-> FALSE]
  ELSE [ok |-> TRUE, messages |-> StripAndDropBlank(v)]

\* what validate_messages does to each batch
ValidatedBatch == [v \in Batches |-> ValidateMessages(v)] @@ <<>>

\* enhance_messages_batch: not message or len(message.strip()) < 3
TooShort(message) == message = <<>> \/ Len(Strip(message)) < MinMessageLen

\* enhance_messages_batch: the locals of the body when it is entered, or
\* the 422 of a request that fails validation
BatchEntry(user_id, submitted, style, tone) ==
  LET v == ValidatedBatch[submitted] IN
  IF v.ok
  THEN [pc |-> "bnext", kind |-> "batch", user_id |-> user_id,
        submitted |-> submitted, messages |-> v.messages, style |-> style,
        tone |-> tone, results |-> <<>>, successful |-> 0, failed |-> 0,
        accessed |-> {}]
  ELSE [pc |-> "respond", kind |-> "batch", submitted |-> submitted,
        resp |-> [status |-> 422]]

\* enhance_messages_batch is entered, or the request fails validation (422)
BatchBegin(p, user_id, submitted, style, tone) ==
  /\ req[p].pc = "idle"
  /\ req' = [req EXCEPT ![p] = BatchEntry(user_id, submitted, style, tone)]
  /\ UNCHANGED <<svcVars, now, rlVars, enhVars, taskVars>>

\* the message the loop of enhance_messages_batch is at
BatchAt(p) == req[p].messages[Len(req[p].results) + 1]

\* enhance_messages_batch: the loop head; a short message is answered with
\* an error at once, after the last message the response is built
BatchNext(p) ==
  /\ req[p].pc = "bnext"
  /\ req' = [req EXCEPT ![p] =
       IF Len(req[p].results) = Len(req[p].messages)
       THEN Upd(@, [pc |-> "respond",
                    resp |-> [status |-> 200, results |-> req[p].results,
                              total |-> Len(req[p].results),
                              successful |-> req[p].successful,
                              failed |-> req[p].failed]])
       ELSE IF TooShort(BatchAt(p))
       THEN Upd(@, [results |-> Append(req[p].results,
                      [original |-> BatchAt(p), enhanced |-> BatchAt(p),
                       error |-> "Message too short", cached |-> FALSE]),
                    failed |-> req[p].failed + 1])
       ELSE Upd(@, [pc |-> "bcacheget"])]
  /\ UNCHANGED <<svcVars, now, rlVars, enhVars, taskVars>>

\* enhance_messages_batch: await _get_cached_result(...)
BatchCacheGet(p, raises) ==
  /\ req[p].pc = "bcacheget"
  /\ LET found == IF raises THEN {}
                  ELSE CacheLookup(BuildCacheKey(req[p].user_id, BatchAt(p),
                                                 req[p].style, req[p].tone))
         seen == req[p].accessed \cup {Len(req[p].results) + 1}
     IN IF found # {}
        THEN LET e == CHOOSE e \in found : TRUE IN
             req' = [req EXCEPT ![p] = Upd(@,
               [pc |-> "bnext", accessed |-> seen,
                results |-> Append(req[p].results,
                  [original |-> BatchAt(p), enhanced |-> e.value.enhanced,
                   improvements |-> e.value.improvements, cached |-> TRUE]),
                successful |-> req[p].successful + 1])]
        ELSE req' = [req EXCEPT ![p] = Upd(@, [pc |-> "bchat", accessed |-> seen])]
  /\ UNCHANGED <<svcVars, now, rlVars, enhVars, taskVars>>

\* enhance_messages_batch: await service.enhance(...), analyze_improvements;
\* an exception becomes the error result of this message
BatchChat(p, reply) ==
  /\ req[p].pc = "bchat"
  /\ LET o == EnhanceOutcome[<<BatchAt(p), req[p].style, req[p].tone, reply,
                               enable_fallback>>]
     IN IF o.enhance.raised \/ o.analyze.raised
        THEN req' = [req EXCEPT ![p] = Upd(@,
               [pc |-> "bnext",
                results |-> Append(req[p].results,
                  [original |-> BatchAt(p), enhanced |-> BatchAt(p),
                   error |-> IF o.enhance.raised THEN o.enhance.error
                             ELSE o.analyze.error,
                   cached |-> FALSE]),
                failed |-> req[p].failed + 1])]
        ELSE req' = [req EXCEPT ![p] = Upd(@,
               [pc |-> "bcacheset",
                result |-> [original |-> BatchAt(p),
                            enhanced |-> o.enhance.enhanced,
                            improvements |-> o.analyze.improvements,
                            metadata |-> o.enhance.metadata, cached |-> FALSE]])]
  /\ UNCHANGED <<svcVars, now, rlVars, enhVars, taskVars>>

\* enhance_messages_batch: await _cache_result(...), then the result
BatchCacheSet(p, raises) ==
  /\ req[p].pc = "bcacheset"
  /\ cache' = IF raises THEN cache
              ELSE CacheStore(BuildCacheKey(req[p].user_id, BatchAt(p),
                                            req[p].style, req[p].tone),
                              [enhanced |-> req[p].result.enhanced,
                               improvements |-> req[p].result.improvements,
                               metadata |-> req[p].result.metadata])
  /\ req' = [req EXCEPT ![p] = Upd(@,
       [pc |-> "bnext", results |-> Append(req[p].results, req[p].result),
        successful |-> req[p].successful + 1])]
  /\ UNCHANGED <<svcVars, now, rlVars, enable_fallback, written, taskVars>>

\* the response leaves
BatchReturn(p) ==
  /\ req[p].pc = "respond" /\ req[p].kind = "batch"
  /\ req' = [req EXCEPT ![p] = IdleReq]
  /\ UNCHANGED <<svcVars, now, rlVars, enhVars, taskVars>>

NextBatch ==
  \/ Tick
  \/ \E p \in SeqProcs, user_id \in EnhUsers, submitted \in Batches,
        style \in EnhStyles, tone \in EnhTones :
          BatchBegin(p, user_id, submitted, style, tone)
  \/ \E p \in SeqProcs : BatchNext(p)
  \/ \E p \in SeqProcs, raises \in BOOLEAN : BatchCacheGet(p, raises)
  \/ \E p \in SeqProcs, reply \in TaskReplies : BatchChat(p, reply)
  \/ \E p \in SeqProcs, raises \in BOOLEAN : BatchCacheSet(p, raises)
  \/ \E p \in SeqProcs : BatchReturn(p)

SpecBatch == InitEnh /\ [][NextBatch]_vars

\* ---------------------------------------- the enhance endpoints, end to end

ApiCredentials == {Missing, "g1"}
ApiArrivals == {1, 2}  \* the requests of one behaviour that reach the limiter
ApiReplies == {r \in Replies : ~r.ok \/ r.content = ReplyHello}
BodyPcs == {"cacheget", "chat", "cacheset", "storepending", "bnext",
            "bcacheget", "bchat", "bcacheset"}

\* the endpoint body runs although the rate limiter rejected the request
MayRunEndpoint_Always(out) == TRUE

\* FastAPI runs the endpoint body only when no dependency raised
MayRunEndpoint(out) == out = "admit"

\* a request arrives at one of the enhance endpoints
ApiBegin(p, endpoint, header, host) ==
  /\ req[p].pc = "idle"
  /\ nchecks + 1 \in ApiArrivals
  /\ req' = [req EXCEPT ![p] =
       [pc |-> "auth", endpoint |-> endpoint, header |-> header,
        cookie |-> Missing, host |-> host, entered |-> FALSE]]
  /\ UNCHANGED <<svcVars, now, rlVars, enhVars, taskVars>>

\* the rate limiter ran first: a request answered 401 has already recorded
\* itself in the window of its network address
ApiAuth_LimiterFirst(p, getRaises) ==
  /\ req[p].pc = "auth"
  /\ LET r == GetCurrentUser(req[p].header, req[p].cookie, getRaises)
         k == RateLimitKey(RateLimitId(NoUser, req[p].host), req[p].endpoint)
     IN /\ req' = [req EXCEPT ![p] =
              IF r.status = "ok" THEN Upd(@, [pc |-> "optuser", user |-> r.user])
              ELSE Upd(@, [pc |-> "answered", resp |-> [status |-> 401]])]
        /\ zset' = IF r.status = "ok" THEN zset
                   ELSE [zset EXCEPT ![k] = @ \cup {now}]
  /\ UNCHANGED <<svcVars, now, zttl, hist, nchecks, enhVars, taskVars>>

\* Depends(get_current_user): the caller, or 401
ApiAuth(p, getRaises) ==
  /\ req[p].pc = "auth"
  /\ LET r == GetCurrentUser(req[p].header, req[p].cookie, getRaises) IN
     req' = [req EXCEPT ![p] =
       IF r.status = "ok" THEN Upd(@, [pc |-> "optuser", user |-> r.user])
       ELSE Upd(@, [pc |-> "answered", resp |-> [status |-> 401]])]
  /\ UNCHANGED <<svcVars, now, rlVars, enhVars, taskVars>>

\* Depends(rate_limiter_dependency): its own Depends(get_optional_user),
\* then the dependency up to the first store call of check_rate_limit
ApiOptUser(p, getRaises) ==
  /\ req[p].pc = "optuser"
  /\ LET u == GetOptionalUser(req[p].header, req[p].cookie, getRaises).user IN
     IF Truthy(u) /\ ~HasId(u)
     THEN /\ req' = [req EXCEPT ![p] = Upd(@,
                 [pc |-> "answered", resp |-> [status |-> 500]])]
          /\ UNCHANGED nchecks
     ELSE /\ req' = [req EXCEPT ![p] = Upd(@,
                 [pc |-> "zrem", caller |-> u,
                  key |-> RateLimitKey(RateLimitId(u, req[p].host),
                                       req[p].endpoint),
                  limit |-> RateLimitFor(u), t |-> now, failed |-> FALSE,
                  out |-> "none"])]
          /\ nchecks' = nchecks + 1
  /\ UNCHANGED <<svcVars, now, zset, zttl, hist, enhVars, taskVars>>

\* the rate limiter raised RateLimitException: 429, the body does not run
ApiReject(p) ==
  /\ req[p].pc = "done" /\ "endpoint" \in DOMAIN req[p] /\ ~req[p].entered
  /\ ~MayRunEndpoint(req[p].out)
  /\ req' = [req EXCEPT ![p] = Upd(@,
       [pc |-> "answered",
        resp |-> [status |-> 429, detail |-> req[p].detail]])]
  /\ UNCHANGED <<svcVars, now, rlVars, enhVars, taskVars>>

\* the dependencies are resolved and the body of the endpoint is entered
ApiEnter(p, message, submitted, style, tone, callback_url) ==
  /\ req[p].pc = "done" /\ "endpoint" \in DOMAIN req[p] /\ ~req[p].entered
  /\ MayRunEndpoint(req[p].out)
  /\ req[p].endpoint = "/ai/enhance/async" => FreshTaskIds # {}
  /\ LET user_id == req[p].user["id"] IN
     req' = [req EXCEPT ![p] = Upd(@,
       [entered |-> TRUE] @@
       CASE req[p].endpoint = "/ai/enhance" ->
              SyncEntry(user_id, message, style, tone)
         [] req[p].endpoint = "/ai/enhance/async" ->
              AsyncEntry(user_id, message, style, tone, callback_url)
         [] req[p].endpoint = "/ai/enhance/batch" ->
              BatchEntry(user_id, submitted, style, tone))]
  /\ UNCHANGED <<svcVars, now, rlVars, enhVars, taskVars>>

\* the 401, 429 or 500 leaves
ApiAnswered(p) ==
  /\ req[p].pc = "answered"
  /\ req' = [req EXCEPT ![p] = IdleReq]
  /\ UNCHANGED <<svcVars, now, rlVars, enhVars, taskVars>>

Init ==
  /\ now = 0
  /\ zset = [k \in Keys |-> {}]
  /\ zttl = [k \in Keys |-> NoTtl]
  /\ req = [p \in Procs |-> IdleReq]
  /\ hist = [k \in Keys |-> <<>>]
  /\ nchecks = 0
  /\ enable_fallback = TRUE
  /\ cache = {}
  /\ written = {}
  /\ tasks = {}
  /\ bg = [t \in TaskIds |-> NoTask]
  /\ polls = [t \in TaskIds |-> NoPoll]
  /\ Warmed

\* one request at a time through its dependencies and its body; the
\* background task an async submit schedules runs after the response and is
\* followed in SpecTask
Next ==
  \/ Tick
  \/ \E p \in SeqProcs, endpoint \in Endpoints, header \in ApiCredentials,
        host \in ClientHosts : ApiBegin(p, endpoint, header, host)
  \/ \E p \in SeqProcs, getRaises \in BOOLEAN : ApiAuth(p, getRaises)
  \/ \E p \in SeqProcs, getRaises \in BOOLEAN : ApiOptUser(p, getRaises)
  \/ \E p \in SeqProcs : RlStoreRaises(p)
  \/ \E p \in SeqProcs : RlZrem(p)
  \/ \E p \in SeqProcs : RlZcard(p)
  \/ \E p \in SeqProcs : RlZadd(p)
  \/ \E p \in SeqProcs : RlExpire(p)
  \/ \E p \in SeqProcs : ApiReject(p)
  \/ \E p \in SeqProcs :
        ApiEnter(p, MsgHeyU, <<MsgHeyU>>, "professional", "neutral",
                 NoCallback)
  \/ \E p \in SeqProcs : ApiAnswered(p)
  \/ \E p \in SeqProcs, raises \in BOOLEAN : EnhCacheGet(p, raises)
  \/ \E p \in SeqProcs, reply \in ApiReplies : EnhChat(p, reply)
  \/ \E p \in SeqProcs, raises \in BOOLEAN : EnhCacheSet(p, raises)
  \/ \E p \in SeqProcs : EnhReturn(p)
  \/ \E p \in SeqProcs, raises \in BOOLEAN : AsyncStorePending(p, raises)
  \/ \E p \in SeqProcs : AsyncReturn(p)
  \/ \E p \in SeqProcs : BatchNext(p)
  \/ \E p \in SeqProcs, raises \in BOOLEAN : BatchCacheGet(p, raises)
  \/ \E p \in SeqProcs, reply \in ApiReplies : BatchChat(p, reply)
  \/ \E p \in SeqProcs, raises \in BOOLEAN : BatchCacheSet(p, raises)
  \/ \E p \in SeqProcs : BatchReturn(p)

Spec == Init /\ [][Next]_vars

\* ------------------------------------------------- the cache key on its own

KeyA == <<"a">>
KeyAFormal == KeyA \o <<":">> \o EnumText("formal")
KeyAFormalPolite == KeyAFormal \o <<":">> \o EnumText("polite")
KeyMessages == {KeyA, KeyAFormal, KeyAFormalPolite, MsgHeyU}

\* _get_cached_result / _cache_result: cache_key = _build_cache_key(...)
KeyBuild(p, user_id, message, style, tone) ==
  /\ req[p].pc = "idle"
  /\ req' = [req EXCEPT ![p] =
       [pc |-> "keyed", user_id |-> user_id, message |-> message,
        style |-> style, tone |-> tone,
        key |-> BuildCacheKey(user_id, message, style, tone)]]
  /\ UNCHANGED <<svcVars, now, rlVars, enhVars, taskVars>>

\* the call that built the key is over
KeyDrop(p) ==
  /\ req[p].pc = "keyed"
  /\ req' = [req EXCEPT ![p] = IdleReq]
  /\ UNCHANGED <<svcVars, now, rlVars, enhVars, taskVars>>

NextKey ==
  \/ \E p \in PairProcs, user_id \in {"u1", "g1"}, message \in KeyMessages,
        style \in Styles, tone \in Tones :
          KeyBuild(p, user_id, message, style, tone)
  \/ \E p \in PairProcs : KeyDrop(p)

SpecKey == InitRL /\ [][NextKey]_vars

\* ------------------------------------------------------- claims, rate limiter

\* the first i checks of a window's history ran without a store error, each
\* answered within the clock tick in which it was issued
CleanPrefix(h, i) == \A j \in 1..i : ~h[j].failed /\ h[j].quick

\* C1: for one (caller, path) with limit N >= 1, from an empty window and with
\* the checks issued one after another within `period`, checks 1..N are
\* admitted and check N+1 is rejected; a check issued once `period` has passed
\* since the earlier admissions is admitted again.
C1_WindowAdmitsExactlyN ==
  \A k \in Keys :
    LET h == hist[k] IN
    \A i \in 1..Len(h) :
      (CleanPrefix(h, i) /\ h[i].limit >= 1) =>
        /\ (h[i].t - h[1].t < DEFAULT_PERIOD /\ i <= h[i].limit)
              => h[i].out = "admit"
        /\ (h[i].t - h[1].t < DEFAULT_PERIOD /\ i = h[i].limit + 1)
              => h[i].out = "429"
        /\ (i > 1 /\ h[i].t - h[i - 1].t >= DEFAULT_PERIOD)
              => h[i].out = "admit"

\* C2: fail-open: a check during which a store call raised ends admitted, and
\* nothing but an admission or a 429 ever leaves the dependency.
C2_FailOpen ==
  \A p \in Procs :
    req[p].pc = "done" =>
      /\ req[p].out \in {"admit", "429"}
      /\ req[p].failed => req[p].out = "admit"

\* C2 witness: a store call raised on a full window and the check was admitted
C2_Witness ==
  \E p \in Procs :
    /\ req[p].pc = "done" /\ req[p].failed /\ req[p].out = "admit"
    /\ Cardinality(zset[req[p].key]) >= req[p].limit

\* ---------------------------------------------------- claims, session resolver

\* the record stored for a caller id is a JSON object that names its id
UsableRecord(id) ==
  /\ UserStore(id).raw = "json"
  /\ Truthy(UserStore(id).value)
  /\ HasId(UserStore(id).value)

\* C9: get_current_user fails closed: when the lookup yields no usable record
\* (absent, store error, malformed) it signals Unauthenticated (401), never a
\* caller and never another error; a caller it returns is the stored record.
C9_FailClosed ==
  \A p \in Procs :
    (req[p].pc = "resolved" /\ req[p].mode = "required") =>
      LET id == GetUserIdFromRequest(req[p].header, req[p].cookie) IN
      /\ req[p].res.status \in {"ok", "401"}
      /\ (id = Missing \/ req[p].storeRaised \/ ~UsableRecord(id))
           => req[p].res.status = "401"
      /\ req[p].res.status = "ok" => req[p].res.user = UserStore(id).value

\* C9 witness: the store holds a JSON object without an id for the caller, the
\* lookup itself succeeds, and the answer is 401
C9_Witness ==
  \E p \in Procs :
    /\ req[p].pc = "resolved" /\ req[p].mode = "required"
    /\ ~req[p].storeRaised
    /\ GetUserIdFromRequest(req[p].header, req[p].cookie) = "d1"
    /\ req[p].res.status = "401"

\* ------------------------------------------------ claims, enhance and cache

\* the cache write of an earlier answered request for the same key is still
\* within its time to live when the request r reads the cache
WithinTtl(r, w) == r.readAt < w.at + ENHANCEMENT_CACHE_TTL

SyncDone(p) == req[p].pc = "respond" /\ req[p].kind = "sync"

HitOf(r, w) ==
  /\ r.resp.status = 200
  /\ r.resp.cached
  /\ r.resp.enhanced = w.enhanced
  /\ ~r.llm

\* C6 (as stated): after an enhance call that completed with a successful
\* cache write, a second call by the same caller for the same message, style
\* and tone within the cache TTL answers cached = true with the identical
\* text and does not invoke the backend.
C6_SecondCallIsHit ==
  \A p \in Procs : SyncDone(p) =>
    \A w \in req[p].prior : WithinTtl(req[p], w) => HitOf(req[p], w)

\* C6 (amended): the same, provided the second call's cache read does not
\* raise; when the read raises the call proceeds as on a miss: it invokes the
\* backend and does not answer cached = true.
C6_SecondCallIsHitIfReadable ==
  \A p \in Procs : SyncDone(p) =>
    \A w \in req[p].prior : WithinTtl(req[p], w) =>
      IF req[p].readRaised
      THEN req[p].llm /\ (req[p].resp.status = 200 => ~req[p].resp.cached)
      ELSE HitOf(req[p], w)

C6_Witness ==
  \E p \in Procs : SyncDone(p) /\ ~req[p].readRaised /\
    \E w \in req[p].prior : WithinTtl(req[p], w) /\ HitOf(req[p], w)

\* the verdict of the validation on each reply the backend can give
ReplyVerdict ==
  [i \in Messages \X {r \in Replies : r.ok} |->
     ValidateReply(CleanReply(i[2].content), i[1])] @@ <<>>

\* the rule-based floor of each request
FloorOf ==
  [i \in Messages \X EnhStyles \X EnhTones |->
     RuleBasedFallback(i[1], i[2], i[3])] @@ <<>>

\* the awaited chat raised, or its cleaned reply fails the validation
BackendFailed(r) ==
  \/ ~r.reply.ok
  \/ ReplyVerdict[<<r.message, r.reply>>] # "ok"

Enhanced(p) == req[p].pc \in {"cacheset", "respond"} /\ req[p].kind = "sync" /\ req[p].llm

IsFloor(r) ==
  /\ ~r.enh.raised
  /\ r.enh.enhanced = FloorOf[<<r.message, r.style, r.tone>>]
  /\ r.enh.metadata.method = "fallback"
  /\ "error" \in DOMAIN r.enh.metadata

\* C7 (as stated): whenever the backend call fails or its output fails the
\* validation, enhance returns the rule-based floor with method "fallback"
\* and the failure recorded in the metadata; the failure is never raised.
C7_FailureYieldsFloor ==
  \A p \in Procs : Enhanced(p) /\ BackendFailed(req[p]) => IsFloor(req[p])

\* C7 (amended): that holds when the rule-based fallback is enabled; when it
\* is disabled the failure is raised to the caller (the request answers 500).
C7_FailureYieldsFloorIfEnabled ==
  \A p \in Procs : Enhanced(p) /\ BackendFailed(req[p]) =>
    IF enable_fallback THEN IsFloor(req[p])
    ELSE req[p].enh.raised /\ req[p].resp.status = 500

C7_Witness ==
  \E p \in Procs : Enhanced(p) /\ BackendFailed(req[p]) /\ enable_fallback
                     /\ req[p].reply.ok /\ IsFloor(req[p])

\* ------------------------------------------------------------ claims, tasks

Terminal == {"completed", "failed"}

\* the place of a status in pending -> processing -> {completed | failed}
Rank(status) ==
  CASE status = "none" -> 0
    [] status = "pending" -> 1
    [] status = "processing" -> 2
    [] status \in Terminal -> 3

\* the status stored for a task id in a task store (none or one)
StoredStatus(store, t) == {u.rec.status : u \in {x \in store : x.id = t}}

\* status b may follow status a
Follows(a, b) == Rank(a) <= Rank(b) /\ (a \in Terminal => b = a)

\* C3: the status stored for a task id is monotonic along pending ->
\* processing -> {completed | failed}: a terminal record is never overwritten
\* with another status, a record never goes back from processing to pending,
\* and successive polls of a task never observe an earlier status than one
\* already observed.
C3_StatusMonotonic ==
  [][\A t \in TaskIds :
       /\ \A a \in StoredStatus(tasks, t), b \in StoredStatus(tasks', t) :
            Follows(a, b)
       /\ Follows(polls[t].status, polls'[t].status)]_vars

C3_Witness ==
  \E t \in TaskIds : /\ polls[t].status = "processing"
                     /\ StoredStatus(tasks, t) \cap Terminal # {}
                     /\ bg[t].pc = "finished"

ResultFields ==
  {"original", "enhanced", "style", "tone", "improvements", "metadata",
   "completed_at"}

CompletedIsWhole(rec) ==
  /\ ResultFields \subseteq DOMAIN rec
  /\ rec.original # <<>> /\ rec.enhanced # <<>> /\ rec.improvements # <<>>
  /\ "method" \in DOMAIN rec.metadata
  /\ "error" \notin DOMAIN rec

HasError(rec) == "error" \in DOMAIN rec /\ rec.error # ""

Retained(t) == bg[t].pc # "none" /\ now < bg[t].issuedAt + TASK_TTL

\* C5: submit writes the pending record of its fresh task id before the
\* background execution starts and answers pending; after submit returned a
\* task id, a status poll within the retention window finds a task, never
\* NotFound.
C5_SubmitThenPollable ==
  [][\A t \in TaskIds :
       /\ bg[t].pc = "start" /\ Retained(t) => StoredStatus(tasks, t) = {"pending"}
       /\ \A p \in Procs : req[p].pc = "respond" /\ req[p].kind = "async"
                             => req[p].resp.task_status = "pending"
       /\ Retained(t) /\ polls'[t] # polls[t] => polls'[t].found]_vars

\* ------------------------------------------------------------ claims, batch

BatchDone(p) ==
  req[p].pc = "respond" /\ req[p].kind = "batch" /\ req[p].resp.status = 200

\* C10: the response of a batch holds exactly one result per submitted
\* message and successful + failed = total = number of results; a message
\* shorter than 3 yields a result with an error and enhanced = original
\* without cache or backend access, and the other messages are processed.
C10_OneResultPerMessage ==
  \A p \in Procs : BatchDone(p) =>
    LET r == req[p].resp IN
    /\ Len(r.results) = Len(req[p].submitted)
    /\ r.successful + r.failed = r.total /\ r.total = Len(r.results)
    /\ \A i \in 1..Len(r.results) :
         Len(req[p].submitted[i]) < MinMessageLen =>
           /\ "error" \in DOMAIN r.results[i]
           /\ r.results[i].enhanced = r.results[i].original
           /\ i \notin req[p].accessed

\* ------------------------------------------ the rule-based floor on its own

MsgPerhapsOk == <<"p", "e", "r", "h", "a", "p", "s", " ", "o", "k">>
MsgGoMaybe == <<"g", "o", " ", "m", "a", "y", "b", "e">>
FloorMessages == {MsgHeyU, MsgPerhapsOk, MsgGoMaybe}
FloorStyles == {"professional", "formal"}

\* the rule-based result of each message, style and tone
FloorResult ==
  [i \in FloorMessages \X FloorStyles \X Tones |->
     RuleBasedFallback(i[1], i[2], i[3])] @@ <<>>

\* self._rule_based_fallback(message, style, tone), one synchronous call
FloorCall(p, message, style, tone) ==
  /\ req[p].pc = "idle"
  /\ req' = [req EXCEPT ![p] =
       [pc |-> "floored", message |-> message, style |-> style, tone |-> tone,
        out |-> FloorResult[<<message, style, tone>>]]]
  /\ UNCHANGED <<svcVars, now, rlVars, enhVars, taskVars>>

\* return text: enhance answers with the result as its enhanced text
FloorReturn(p) ==
  /\ req[p].pc = "floored"
  /\ req' = [req EXCEPT ![p] = [pc |-> "returned", enhanced |-> req[p].out]]
  /\ UNCHANGED <<svcVars, now, rlVars, enhVars, taskVars>>

NextFloor ==
  \/ \E p \in PairProcs, message \in FloorMessages, style \in FloorStyles,
        tone \in Tones : FloorCall(p, message, style, tone)
  \/ \E p \in PairProcs : FloorReturn(p)

SpecFloor == InitEnh /\ [][NextFloor]_vars

\* ---------------------------------------------------------- claims, pipeline

Rejected(p) == "out" \in DOMAIN req[p] /\ req[p].out = "429"

\* C8: on every enhance endpoint (sync, batch, async submit) a request the
\* rate limiter rejects never enters the body of its endpoint: it reads and
\* writes no enhancement-cache entry, calls no generative backend and writes
\* no task record; while it is being answered the cache and the task store
\* only lose what expires.
C8_RejectedDoesNoWork ==
  [][\A p \in SeqProcs :
       /\ Rejected(p) =>
            /\ ~req[p].entered /\ req[p].pc \notin BodyPcs
            /\ "kind" \notin DOMAIN req[p]
            /\ cache' \subseteq cache /\ tasks' \subseteq tasks
            /\ written' = written /\ bg' = bg
       /\ req[p].pc \in BodyPcs => req[p].entered /\ req[p].out = "admit"]_vars

\* an async submit was rejected with 429 and its body was not entered
C8_Witness ==
  \E p \in SeqProcs :
    /\ req[p].pc = "answered" /\ Rejected(p)
    /\ req[p].resp.status = 429 /\ ~req[p].entered
    /\ req[p].endpoint = "/ai/enhance/async"

\* --------------------------------------------------------- claims, normalizer

\* enhance answered with the result of the rule-based normalizer
Normalized(p) ==
  Enhanced(p) /\ ~req[p].enh.raised /\ req[p].enh.metadata.method = "fallback"

\* C11: for every message that is non-empty after trimming, and every style
\* and tone, the rule-based normalizer returns a non-empty string.
C11_FloorNonEmpty ==
  \A p \in Procs : Normalized(p) /\ Strip(req[p].message) # <<>> =>
    req[p].enh.enhanced # <<>>

\* ---------------------------------------------------------- claims, cache key

KeyTuple(r) == <<r.message, r.style, r.tone>>

\* C12: the cache key is a function of (caller, message, style, tone): equal
\* tuples give the same key, and for one caller two tuples that differ in
\* message, style or tone give different keys.
C12_KeyInjective ==
  \A p, q \in Procs : req[p].pc = "keyed" /\ req[q].pc = "keyed" =>
    /\ req[p].user_id = req[q].user_id /\ KeyTuple(req[p]) = KeyTuple(req[q])
         => req[p].key = req[q].key
    /\ req[p].user_id = req[q].user_id /\ KeyTuple(req[p]) # KeyTuple(req[q])
         => req[p].key # req[q].key

\* two keys of one caller whose messages, one a prefix of the other up to a
\* colon, differ by what could be read as a style and a tone
C12_Witness ==
  \E p, q \in Procs :
    /\ req[p].pc = "keyed" /\ req[q].pc = "keyed"
    /\ req[p].user_id = req[q].user_id
    /\ req[p].message = KeyA /\ req[q].message = KeyAFormalPolite
    /\ req[p].style = "formal" /\ req[p].tone = "polite"
    /\ req[p].key # req[q].key

\* -------------------------------------------------------- claims, limit tiers

InCheck(p) == "caller" \in DOMAIN req[p] /\ "limit" \in DOMAIN req[p]

\* is_guest is stored and false; a record without the flag counts as a guest
NotGuest(u) == "is_guest" \in DOMAIN u /\ u["is_guest"] = FALSE

\* C13: the limit the rate limiter applies depends on the caller class only:
\* the base limit for a resolved caller that is not a guest, half of it for a
\* resolved guest, a quarter of it for a request with no resolved caller, whose
\* window is keyed by the network address; anonymous <= guest <= base.
C13_TieredLimit ==
  \A p \in Procs : InCheck(p) =>
    LET u == req[p].caller IN
    /\ Truthy(u) /\ NotGuest(u) =>
         req[p].limit = DEFAULT_LIMIT /\ req[p].key[1] = u["id"]
    /\ Truthy(u) /\ ~NotGuest(u) =>
         req[p].limit = DEFAULT_LIMIT \div 2 /\ req[p].key[1] = u["id"]
    /\ ~Truthy(u) =>
         req[p].limit = DEFAULT_LIMIT \div 4 /\ req[p].key[1] \in ClientHosts
    /\ DEFAULT_LIMIT \div 4 <= DEFAULT_LIMIT \div 2
    /\ DEFAULT_LIMIT \div 2 <= DEFAULT_LIMIT

\* the check of a request without a resolved caller is keyed by the network
\* address and carries the smallest limit, below the base limit
C13_Witness ==
  \E p \in Procs :
    /\ InCheck(p) /\ req[p].caller = NoUser /\ req[p].pc = "done"
    /\ req[p].key[1] \in ClientHosts
    /\ req[p].limit = DEFAULT_LIMIT \div 4 /\ req[p].limit < DEFAULT_LIMIT

\* ------------------------------------------------------ claims, notification

Notified(b) == "notified" \in DOMAIN b

\* C14: a task submitted with a callback_url gets exactly one notification
\* attempt, made only after its terminal status has been written and carrying
\* the task's id and the terminal status of the stored record (and the error
\* when failed); the attempt, failing or not, leaves the stored status as it
\* is and is not repeated; without a callback_url there is no attempt.
C14_NotifyOnceAfterTerminal ==
  [][\A t \in TaskIds :
       /\ Notified(bg[t]) => bg'[t].pc = "none" \/ bg'[t].notified = bg[t].notified
       /\ bg'[t].pc = "finished" =>
            (Notified(bg'[t]) <=> bg'[t].callback_url # NoCallback)
       /\ ~Notified(bg[t]) /\ Notified(bg'[t]) =>
            /\ bg'[t].notified.task_id = t
            /\ bg'[t].notified.status \in Terminal
            /\ bg'[t].notified.status = "failed" =>
                 "error" \in DOMAIN bg'[t].notified
            /\ tasks' = tasks
            /\ Retained(t) => StoredStatus(tasks, t) = {bg'[t].notified.status}]_vars

\* ----------------------------------------------------- claims, 429 response

DecidedReject(p) == "is_limited" \in DOMAIN req[p] /\ req[p].is_limited

\* C15: whenever the admission check decides reject, the request is answered
\* 429 with a message that states the limit and the period that were applied;
\* the fail-open handler never turns the reject into an admission.
C15_RejectAnswers429 ==
  \A p \in Procs : DecidedReject(p) =>
    /\ req[p].out = "429" /\ req[p].pc \in {"done", "answered"}
    /\ ~req[p].entered
    /\ req[p].detail = [limit |-> req[p].limit, period |-> DEFAULT_PERIOD]
    /\ req[p].pc = "answered" =>
         req[p].resp = [status |-> 429, detail |-> req[p].detail]

\* a request without a resolved caller was answered 429 with the anonymous
\* limit in the message
C15_Witness ==
  \E p \in Procs :
    /\ DecidedReject(p) /\ req[p].pc = "answered"
    /\ req[p].resp.status = 429
    /\ req[p].resp.detail.limit = DEFAULT_LIMIT \div 4
    /\ req[p].resp.detail.period = DEFAULT_PERIOD

\* -------------------------------------------------------- claims, status poll

\* C16: a status poll answers 404 for every task id for which no task was
\* submitted, and answers with the stored task for every id whose record
\* exists in the store.
C16_PollAnswersStored ==
  [][\A t \in TaskIds : polls'[t] # polls[t] =>
       /\ bg[t].pc = "none" => ~polls'[t].found
       /\ StoredStatus(tasks, t) = {} => ~polls'[t].found
       /\ StoredStatus(tasks, t) # {} =>
            polls'[t].found /\ {polls'[t].status} = StoredStatus(tasks, t)]_vars

\* --------------------------------------------------------- claims, model info

InfoDone(p) == req[p].pc = "respond" /\ req[p].kind = "info"

\* C17: when the generative backend is unreachable, GET /ai/model-info
\* answers 503, whereas an enhancement request in the same situation is
\* answered with the fallback result and no error.
C17_UnreachableIs503 ==
  \A p \in Procs :
    /\ InfoDone(p) /\ ~req[p].reachable => req[p].resp.status = 503
    /\ SyncDone(p) /\ req[p].llm /\ ~req[p].reply.ok /\ enable_fallback
         /\ FloorOf[<<req[p].message, req[p].style, req[p].tone>>] # <<>> =>
           /\ req[p].resp.status = 200
           /\ req[p].resp.metadata.method = "fallback"

\* --------------------------------------------------- claims, session resolver

Resolved(p) == req[p].pc = "resolved"
\* the caller a resolution handed on, None when it answered 401
Returned(r) == IF "user" \in DOMAIN r.res THEN r.res.user ELSE NoUser
NoIdentifier(r) == r.header \in {Missing, ""} /\ r.cookie \in {Missing, ""}

\* C18: a request that carries no caller identifier (no non-empty X-User-ID
\* header and no non-empty user_id cookie) is answered Unauthenticated, or
\* None in optional mode, without any store lookup.
C18_NoIdentifierNoLookup ==
  \A p \in Procs : Resolved(p) /\ NoIdentifier(req[p]) =>
    /\ req[p].res.lookups = 0
    /\ req[p].mode = "required" => req[p].res.status = "401"
    /\ req[p].mode = "optional" => req[p].res.user = NoUser

\* the optional resolver answered None for an empty header and no cookie
\* while the store would have raised, without asking the store
C18_Witness ==
  \E p \in Procs :
    /\ Resolved(p) /\ req[p].mode = "optional" /\ req[p].storeRaised
    /\ req[p].header = "" /\ req[p].cookie = Missing
    /\ req[p].res.lookups = 0 /\ req[p].res.user = NoUser

\* C19: the caller identifier is the header when it is present and non-empty,
\* otherwise the cookie when it is present and non-empty, otherwise none: seen
\* by the record the resolver returns.
C19_HeaderThenCookie ==
  \A p \in Procs : Resolved(p) /\ ~req[p].storeRaised =>
    LET h == req[p].header
        c == req[p].cookie
    IN /\ h \notin {Missing, ""} /\ UsableRecord(h) =>
            Returned(req[p]) = UserStore(h).value
       /\ h \notin {Missing, ""} /\ UserStore(h).raw = "absent" =>
            IF req[p].mode = "required" THEN req[p].res.status = "401"
            ELSE Returned(req[p]) = NoUser
       /\ h \in {Missing, ""} /\ c \notin {Missing, ""} /\ UsableRecord(c) =>
            Returned(req[p]) = UserStore(c).value
       /\ NoIdentifier(req[p]) => req[p].res.lookups = 0

\* header and cookie name different callers and the header's caller is returned
C19_Witness ==
  \E p \in Procs :
    /\ Resolved(p) /\ ~req[p].storeRaised /\ req[p].mode = "required"
    /\ req[p].header = "u1" /\ req[p].cookie = "g1"
    /\ req[p].res.status = "ok" /\ req[p].res.user = UserRegistered

\* C20: get_optional_user never fails: for a missing identifier, an absent
\* record, a store error or a malformed record it returns None, and otherwise
\* it returns the stored caller.
C20_OptionalNoneOrCaller ==
  \A p \in Procs : Resolved(p) /\ req[p].mode = "optional" =>
    LET id == GetUserIdFromRequest(req[p].header, req[p].cookie) IN
    /\ req[p].res.status = "ok"
    /\ IF id = Missing \/ req[p].storeRaised \/ ~UsableRecord(id)
       THEN req[p].res.user = NoUser
       ELSE req[p].res.user = UserStore(id).value

\* ------------------------------------------------ claims, concurrent checks

\* the check of p inserts its entry in this step
Inserts(p) == req[p].pc = "zadd" /\ req'[p].pc = "expire"

\* C21: the admission check is not atomic: a check inserts on the count it
\* read earlier, so two concurrent checks of one key can both be admitted and
\* leave more entries than the limit. The window passes the limit by this
\* race only: an insertion that takes it over the limit is made by a check
\* that read a count below the limit, and other checks have inserted between
\* its count and its insertion.
C21_OvershootOnlyByRace ==
  [][\A p \in Procs :
       (Inserts(p) /\ Cardinality(zset'[req[p].key]) > req[p].limit) =>
          /\ req[p].request_count < req[p].limit
          /\ req[p].request_count < Cardinality(zset[req[p].key])]_vars

\* C21 witness: two checks of one key read the same count below the limit,
\* both are admitted, and the window holds more entries than the limit
C21_Witness ==
  \E p, q \in Procs :
    /\ p # q /\ req[p].pc = "done" /\ req[q].pc = "done"
    /\ req[p].key = req[q].key
    /\ req[p].out = "admit" /\ req[q].out = "admit"
    /\ ~req[p].failed /\ ~req[q].failed
    /\ req[p].request_count = req[q].request_count
    /\ req[p].request_count < req[p].limit
    /\ Cardinality(zset[req[p].key]) > req[p].limit

\* the answered checks of key k that were admitted by the count (not by the
\* fail-open clause) and read their clock within the trailing period
AdmittedInWindow(k) ==
  {i \in 1..Len(hist[k]) :
     /\ hist[k][i].out = "admit" /\ ~hist[k][i].failed
     /\ hist[k][i].t > now - DEFAULT_PERIOD}

\* C22: under any interleaving of concurrent checks of one key, the number of
\* requests admitted within one window exceeds the limit by no more than 1.
C22_OvershootAtMostOne ==
  \A k \in Keys : \A i \in AdmittedInWindow(k) :
    Cardinality(AdmittedInWindow(k)) <= hist[k][i].limit + 1

\* --------------------------------------------------- claims, window contents

\* the check of p is decided as rejected in this step
Rejects(p) ==
  /\ req[p].pc # "done" /\ req'[p].pc = "done"
  /\ req'[p].out = "429"

\* the check of p purges in this step
Purges(p) == req[p].pc = "zrem" /\ req'[p].pc = "zcard"

\* the check of p counts in this step
Counts(p) == req[p].pc = "zcard" /\ req'[p].pc \in {"zadd", "done"}
               /\ ~req'[p].failed

\* C23: a rejected check does not record the attempt. Its purge only removes
\* entries with score <= now - period and never sets an expiry; it is rejected
\* on its count, in a step that leaves every window and every expiry as they
\* are: no entry is inserted and the expiry of the key is not refreshed.
C23_RejectedRecordsNothing ==
  [][\A p \in Procs :
       /\ Rejects(p) =>
            /\ req[p].pc = "zcard"
            /\ zset' = zset /\ zttl' = zttl
       /\ Purges(p) =>
            LET k == req[p].key IN
            /\ zset'[k] \subseteq zset[k]
            /\ \A s \in zset[k] \ zset'[k] : s <= req[p].t - DEFAULT_PERIOD
            /\ zttl'[k] \in {zttl[k], NoTtl}
            /\ \A j \in Keys \ {k} : zset'[j] = zset[j] /\ zttl'[j] = zttl[j]]_vars

\* C23 witness: a check is rejected on a window that holds an earlier entry,
\* and the key still carries the expiry of that earlier admission
C23_Witness ==
  \E p \in Procs :
    /\ req[p].pc = "done" /\ req[p].out = "429"
    /\ \E s \in zset[req[p].key] : s < req[p].t
    /\ zttl[req[p].key] # NoTtl
    /\ zttl[req[p].key] < req[p].t + DEFAULT_PERIOD + ExpireSlack

\* C24 (as stated): the count compared with the limit never includes an
\* entry with score <= now - period.
C24_CountHasNoExpired ==
  [][\A p \in Procs :
       Counts(p) =>
         \A s \in zset[req[p].key] : s > req[p].t - DEFAULT_PERIOD]_vars

\* C24 (amended): the purge leaves exactly the entries with score >
\* now - period, and the count is the size of the set when zcard runs; between
\* the purge and the count of a check the set gains an entry only by the
\* insertion of another check, with that check's own clock reading as score.
C24_PurgedBeforeCount ==
  [][\A p \in Procs :
       LET k == req[p].key IN
       /\ Purges(p) =>
            zset'[k] = {s \in zset[k] : s > req[p].t - DEFAULT_PERIOD}
       /\ Counts(p) => req'[p].request_count = Cardinality(zset[k])
       /\ (req[p].pc = "zcard" /\ req'[p].pc = "zcard") =>
            \A s \in zset'[k] \ zset[k] :
              \E q \in Procs \ {p} :
                Inserts(q) /\ req[q].key = k /\ req[q].t = s]_vars

\* C24 witness: a check has purged the entry of an earlier admission that is
\* a period old and is about to count the entries that remain
C24_Witness ==
  \E p \in Procs :
    /\ req[p].pc = "zcard"
    /\ zset[req[p].key] # {}
    /\ \A s \in zset[req[p].key] : s > req[p].t - DEFAULT_PERIOD
    /\ \E i \in 1..Len(hist[req[p].key]) :
         LET h == hist[req[p].key][i] IN
         /\ h.out = "admit" /\ ~h.failed
         /\ h.t <= req[p].t - DEFAULT_PERIOD

\* no check of key k is being served, and none of the answered ones failed
Quiet(k) ==
  /\ \A p \in Procs : req[p].pc # "idle" => req[p].key # k
  /\ \A i \in 1..Len(hist[k]) : ~hist[k][i].failed

\* C25: every admitted request adds exactly one entry to its window: the
\* number of entries with score > now - period equals the number of requests
\* admitted for the key in the trailing period.
C25_OneEntryPerAdmission ==
  \A k \in Keys :
    Quiet(k) =>
      Cardinality({s \in zset[k] : s > now - DEFAULT_PERIOD})
        = Cardinality(AdmittedInWindow(k))

\* C26: whenever no check is in flight for a key, the key, if it exists,
\* carries an expiry, and the expiry is not before the end of the window of
\* any entry it holds.
C26_KeyCarriesExpiry ==
  \A k \in Keys :
    ((\A p \in Procs : req[p].pc # "idle" => req[p].key # k) /\ zset[k] # {}) =>
      /\ zttl[k] # NoTtl
      /\ \A s \in zset[k] : zttl[k] >= s + DEFAULT_PERIOD

\* ----------------------------------------------- claims, generative output

\* the number of words of a text: the maximal runs of characters other than
\* the space
WordCount(text) ==
  Cardinality({j \in 1..Len(text) :
                 text[j] # " " /\ (j = 1 \/ text[j - 1] = " ")})

\* C27: the generative backend is invoked only for a message of at least 5
\* words; for a shorter message enhance returns the floor without a backend
\* call.
C27_ShortMessageSkipsBackend ==
  \A p \in Procs : Enhanced(p) => WordCount(req[p].message) >= 5

\* the reply of the backend after the clean-up of enhance
Cleaned ==
  [r \in {r \in Replies : r.ok} |-> CleanReply(r.content)] @@ <<>>

\* the cleaned reply g is non-empty, at least the minimum length and not
\* longer than the factor times the message
WithinBounds(g, message) ==
  /\ g # <<>>
  /\ Len(g) >= MinReplyLen
  /\ Len(g) <= MaxReplyFactor * Len(message)

\* the ValueError of a cleaned reply outside the bounds
BoundsError(g) ==
  IF Len(g) < MinReplyLen THEN "LLM output too short" ELSE "LLM output too long"

\* enhance was awaited and the backend gave a reply
Replied(p) == Enhanced(p) /\ req[p].reply.ok

\* C28 (as stated): a generative output is accepted only within the bounds;
\* any output outside them is rejected and the result is the fallback with the
\* reason recorded.
C28_OutsideBoundsYieldsFallback ==
  \A p \in Procs : Replied(p) =>
    LET g == Cleaned[req[p].reply]
        e == req[p].enh
    IN IF WithinBounds(g, req[p].message)
       THEN ~e.raised /\ e.metadata.method = "llm"
       ELSE IsFloor(req[p]) /\ e.metadata.error = BoundsError(g)

\* C28 (amended): a generative output is accepted, and returned as cleaned,
\* exactly when after the clean-up it is non-empty, at least 3 characters and
\* at most 4 times the length of the message; an output outside these bounds
\* gives the fallback with the reason recorded when the fallback is enabled,
\* and is raised to the caller when it is disabled.
C28_AcceptedWithinBounds ==
  \A p \in Procs : Replied(p) =>
    LET g == Cleaned[req[p].reply]
        e == req[p].enh
    IN IF WithinBounds(g, req[p].message)
       THEN ~e.raised /\ e.metadata.method = "llm" /\ e.enhanced = g
       ELSE IF enable_fallback
            THEN IsFloor(req[p]) /\ e.metadata.error = BoundsError(g)
            ELSE e.raised /\ e.error = BoundsError(g)

\* C28 witness: a reply of four characters that the clean-up shortens to two
\* is rejected as too short, and the fallback is returned with the reason
C28_Witness ==
  \E p \in Procs :
    /\ Replied(p) /\ enable_fallback
    /\ Len(req[p].reply.content) >= MinReplyLen
    /\ Len(Cleaned[req[p].reply]) < MinReplyLen
    /\ IsFloor(req[p])
    /\ req[p].enh.metadata.error = "LLM output too short"

\* C29: a generative output equal to the rule-based floor is not accepted:
\* the result is reported as the fallback method.
C29_FloorEqualIsFallback ==
  \A p \in Procs :
    (/\ Replied(p) /\ ~req[p].enh.raised
     /\ Cleaned[req[p].reply]
          = FloorOf[<<req[p].message, req[p].style, req[p].tone>>]) =>
      req[p].enh.metadata.method = "fallback"

\* the rule-based normalizer applied to the cleaned reply
NormalizedReply ==
  [i \in {r \in Replies : r.ok} \X EnhStyles \X EnhTones |->
     RuleBasedFallback(CleanReply(i[1].content), i[2], i[3])] @@ <<>>

\* C30: when a generative output g is accepted, the enhanced text returned is
\* the rule-based normalizer applied to g.
C30_AcceptedIsNormalized ==
  \A p \in Procs :
    (Replied(p) /\ ~req[p].enh.raised /\ req[p].enh.metadata.method = "llm") =>
      req[p].enh.enhanced
        = NormalizedReply[<<req[p].reply, req[p].style, req[p].tone>>]

\* ------------------------------------------------- claims, cache behaviour

\* the response enhance_message gives when the cache has no entry
MissResponse(r) ==
  LET o == EnhanceOutcome[<<r.message, r.style, r.tone, r.reply,
                            enable_fallback>>]
  IN IF o.enhance.raised \/ o.analyze.raised THEN [status |-> 500]
     ELSE [status |-> 200, enhanced |-> o.enhance.enhanced,
           improvements |-> o.analyze.improvements,
           metadata |-> o.enhance.metadata, cached |-> FALSE]

\* the cache write of the request was attempted and raised
WriteRaised(r) == "wroteAt" \in DOMAIN r /\ ~r.wrote

\* C31: cache errors are absorbed. When the cache read raises the request
\* goes on as on a miss: enhance is awaited and the response is the one a miss
\* gives. When the cache write raises the computed result is returned with
\* status 200 and cached = false.
C31_CacheErrorsAbsorbed ==
  \A p \in Procs : SyncDone(p) =>
    /\ req[p].readRaised => req[p].llm /\ req[p].resp = MissResponse(req[p])
    /\ WriteRaised(req[p]) =>
         /\ req[p].resp = MissResponse(req[p])
         /\ req[p].resp.status = 200 /\ ~req[p].resp.cached

\* C31 witness: the read raised although the entry of an earlier request is
\* live, the write raised too, and the request is answered with the result
C31_Witness ==
  \E p \in Procs :
    /\ SyncDone(p) /\ req[p].readRaised /\ WriteRaised(req[p])
    /\ \E w \in req[p].prior : WithinTtl(req[p], w)
    /\ req[p].resp.status = 200

\* the request of p was answered from the cache
CacheHit(p) ==
  SyncDone(p) /\ req[p].resp.status = 200 /\ req[p].resp.cached

\* the latest answered request that wrote the text to the cache was one of
\* the caller user_id
WrittenBy(user_id, text) ==
  \E w \in written : w.user_id = user_id /\ w.enhanced = text

\* C32: cache entries are scoped per caller: after any sequence of calls by
\* several callers, a request answered cached = true gets a text that a
\* request of the same caller wrote; a result written for another caller is
\* never returned, even for the same message, style and tone.
C32_HitIsOwnWrite ==
  \A p \in Procs :
    CacheHit(p) => WrittenBy(req[p].user_id, req[p].resp.enhanced)

\* C32 witness: a caller is answered from the cache with its own text while
\* the cache holds a different text for the same message of the other caller
C32_Witness ==
  \E p \in Procs :
    /\ CacheHit(p)
    /\ \E e \in cache :
         /\ e.key # BuildCacheKey(req[p].user_id, req[p].message, req[p].style,
                                  req[p].tone)
         /\ e.value.enhanced # req[p].resp.enhanced

\* C33: a cache entry is written at most once per fingerprint per TTL: under
\* any interleaving of concurrent enhance calls for the same (caller, message,
\* style, tone) a live entry is not overwritten before it expires.
C33_WriteOncePerTtl ==
  [][\A e \in cache : e.exp > now' =>
       \A f \in cache' : f.key = e.key => f = e]_vars

\* the earlier answered request w cached a result of the fallback path, and
\* the entry is within its time to live when the request r reads the cache
LiveFallback(r, w) == w.method = "fallback" /\ WithinTtl(r, w)

\* the request r is answered with the cached fallback result of w
FallbackHit(r, w) ==
  /\ HitOf(r, w)
  /\ r.resp.metadata.method = "fallback"

\* C34 (as stated): after an enhance call that fell back, every replay of the
\* same (caller, message, style, tone) within the cache TTL returns that
\* fallback text with cached = true and does not contact the backend.
C34_FallbackReplayIsHit ==
  \A p \in Procs : SyncDone(p) =>
    \A w \in req[p].prior : LiveFallback(req[p], w) => FallbackHit(req[p], w)

\* C34 (amended): that holds for a fallback result that was written to the
\* cache and a replay whose cache read does not raise; a replay whose read
\* raises goes on as on a miss and contacts the backend.
C34_FallbackReplayIsHitIfReadable ==
  \A p \in Procs : SyncDone(p) =>
    \A w \in req[p].prior : LiveFallback(req[p], w) =>
      IF req[p].readRaised
      THEN req[p].llm /\ req[p].resp = MissResponse(req[p])
      ELSE FallbackHit(req[p], w)

\* C34 witness: a replay is answered from the cache with the fallback text
\* of an earlier call
C34_Witness ==
  \E p \in Procs : SyncDone(p) /\ ~req[p].readRaised /\
    \E w \in req[p].prior : LiveFallback(req[p], w) /\ FallbackHit(req[p], w)

\* ------------------------------------------------ claims, result metadata

\* enhance was awaited and returned a result
Returns(p) == Enhanced(p) /\ ~req[p].enh.raised

\* C35: every result returned by enhance carries metadata with a method (llm
\* for the generative path, or fallback), the model identifier and
\* processing_time_ms; the metadata has an error exactly when the method is
\* fallback.
C35_MetadataComplete ==
  \A p \in Procs : Returns(p) =>
    LET m == req[p].enh.metadata IN
    /\ {"method", "model", "processing_time_ms"} \subseteq DOMAIN m
    /\ m.method \in {"llm", "fallback"}
    /\ m.model = ModelName
    /\ ("error" \in DOMAIN m) <=> (m.method = "fallback")

\* C35 witness: a result of the fallback path with its error, after a reply
\* of the backend that failed the validation
C35_Witness ==
  \E p \in Procs :
    /\ Returns(p) /\ req[p].reply.ok
    /\ req[p].enh.metadata.method = "fallback"
    /\ req[p].enh.metadata.error = "LLM output too long"
    /\ "processing_time_ms" \in DOMAIN req[p].enh.metadata

\* ------------------------------------------------ claims, task completion

\* C36: under fair scheduling, with every store call and the backend call
\* returning, every submitted task eventually has a stored record with status
\* completed or failed.
C36_EventuallyTerminal ==
  \A t \in TaskIds :
    (bg[t].pc = "start") ~> (StoredStatus(tasks, t) \cap Terminal # {})

\* C37: created_at is fixed at submission: a write of processing, completed
\* or failed leaves the created_at of the stored record as the pending record
\* has it.
C37_CreatedAtFixed ==
  [][\A a \in tasks, b \in tasks' :
       a.id = b.id => b.rec.created_at = a.rec.created_at]_vars

\* ------------------------------------------------ claims, service singleton

\* the caller p holds a service it got from get_enhancement_service
Holds(p) == req[p].pc = "svc" /\ req[p].service.ok

\* C38: under any interleaving of concurrent first requests the enhancement
\* service is constructed at most once, and every caller obtains that same
\* instance.
C38_BuiltOnce ==
  /\ constructed <= 1
  /\ \A p \in Procs : Holds(p) => req[p].service.instance = enhancement_service
  /\ \A p, q \in Procs :
       Holds(p) /\ Holds(q) => req[p].service.instance = req[q].service.instance

\* C38 witness: three callers of different kinds that are served together
\* hold the one instance built
C38_Witness ==
  \E p, q, r \in Procs :
    /\ Holds(p) /\ Holds(q) /\ Holds(r)
    /\ req[p].kind = "sync" /\ req[q].kind = "background"
    /\ req[r].kind = "health"
    /\ constructed = 1

\* ------------------------------------------- claims, resolver before limiter

\* the request is in, or was answered 401 by, Depends(get_current_user)
Unresolved(p) ==
  \/ req[p].pc = "auth"
  \/ req[p].pc = "answered" /\ req[p].resp.status = 401

\* C39: on the enhance endpoints the session resolver runs before the rate
\* limiter: a request whose caller cannot be resolved is answered 401 without
\* having reached the limiter, and no step taken while it is resolved or
\* answered changes a rate-limit window, a key's expiry or the count of
\* checks (entries only leave when the clock expires their key).
C39_UnresolvedConsumesNoQuota ==
  [][\A p \in SeqProcs :
       /\ Unresolved(p) =>
            /\ "key" \notin DOMAIN req[p] /\ "out" \notin DOMAIN req[p]
            /\ hist' = hist /\ nchecks' = nchecks
            /\ now' = now => zset' = zset /\ zttl' = zttl
            /\ \A k \in Keys : zset'[k] \subseteq zset[k]
       /\ (req[p].pc = "auth" /\ req'[p].pc = "answered") =>
            req'[p].resp.status = 401]_vars

\* a request was answered 401 while the window of an earlier, admitted request
\* still holds its entry
C39_Witness ==
  \E p \in SeqProcs :
    /\ req[p].pc = "answered" /\ req[p].resp.status = 401
    /\ nchecks = 1
    /\ \E k \in Keys : zset[k] # {}

\* --------------------------------------------- claims, shape of the floor

\* C40: for style professional or formal and every tone, a non-empty
\* rule-based result does not begin with a lowercase letter and ends with
\* '.', '!' or '?'.
C40_CapitalizedAndPunctuated ==
  \A p \in PairProcs :
    req[p].pc = "floored" /\ req[p].out # <<>> =>
      /\ ~IsLower(req[p].out[1])
      /\ req[p].out[Len(req[p].out)] \in TerminalPunctuation

====
